---- MODULE Spec2Model ----
(***************************************************************************)
(* Model of the view-rendering subsystem of raptor-framework:              *)
(*   SimpleTemplateEngine (src/src/views/templateEngine.ts, lines 21-456)  *)
(*   HelpersManager       (src/src/views/templateEngine.ts, lines 468-690) *)
(*                                                                         *)
(* Text is a sequence of one-character strings, so that every regular      *)
(* expression of the source is modelled by what it matches, character by   *)
(* character.  A JavaScript value is a tagged record.                      *)
(***************************************************************************)
EXTENDS Integers, Sequences, FiniteSets, TLC

VARIABLES
  scen,     \* the render call under study: the template, the partial files
  helpers,  \* SimpleTemplateEngine.helpers: name -> helper function
  stack,    \* the active render() calls, outermost first
  outcome,  \* what the outermost render() gave its caller
  raised,   \* TRUE once a helper body has raised during this render
  undefArg, \* TRUE once a helper argument path resolved to undefined
  hm,       \* HelpersManager.helpers: name -> helper function
  hmLast,   \* the last HelpersManager call and what it gave its caller
  hmCalls,  \* number of HelpersManager calls made so far
  engine,   \* RaptorEngine: defaultLayout, contentAnnotation, cacheTemplates
  reads,    \* the readFile calls on view and layout files: path -> events
  renders,  \* the RaptorEngine.render calls made so far, in order
  resolved, \* the last direct call of resolveValue and what it gave
  chain     \* the Router.resolve call under way: middlewares, call stack, events

vars == <<scen, helpers, stack, outcome, raised, undefArg, hm, hmLast, hmCalls,
          engine, reads, renders, resolved, chain>>

renderVars == <<scen, helpers, stack, outcome, raised, undefArg>>
managerVars == <<hm, hmLast, hmCalls>>
engineVars == <<engine, reads, renders>>
unitVars == <<resolved, chain>>

----------------------------------------------------------------------------
(* Bounds of the model *)

\* deepest nesting of render() calls through partials that is explored
MaxDepth == 3
\* number of HelpersManager calls explored in one behaviour
MaxCalls == 3

----------------------------------------------------------------------------
(* Characters and character classes of the regular expressions *)

LowerSeq == <<"a","b","c","d","e","f","g","h","i","j","k","l","m",
              "n","o","p","q","r","s","t","u","v","w","x","y","z">>
UpperSeq == <<"A","B","C","D","E","F","G","H","I","J","K","L","M",
              "N","O","P","Q","R","S","T","U","V","W","X","Y","Z">>
DigitSeq == <<"0","1","2","3","4","5","6","7","8","9">>

Range(s) == {s[i] : i \in DOMAIN s}

Letters == Range(LowerSeq) \cup Range(UpperSeq)
Digits == Range(DigitSeq)

\* [a-zA-Z0-9_]
WordChars == Letters \cup Digits \cup {"_"}
\* [a-zA-Z0-9_.]
PathChars == WordChars \cup {"."}
\* [a-zA-Z0-9/_-]
PartialChars == WordChars \cup {"/", "-"}
\* \s (the white space that occurs in the templates of the model)
SpaceChars == {" ", "\n", "\t"}

----------------------------------------------------------------------------
(* Generic text operations *)

RECURSIVE Flatten(_)
Flatten(ss) == IF ss = <<>> THEN <<>> ELSE Head(ss) \o Flatten(Tail(ss))

\* does pattern p occur in s at position i ?
MatchAt(s, i, p) ==
  /\ i >= 1
  /\ i + Len(p) - 1 <= Len(s)
  /\ \A k \in 1..Len(p) : s[i + k - 1] = p[k]

\* first position >= i of s that holds p, or 0
RECURSIVE IndexFrom(_, _, _)
IndexFrom(s, p, i) ==
  IF i + Len(p) - 1 > Len(s) THEN 0
  ELSE IF MatchAt(s, i, p) THEN i
  ELSE IndexFrom(s, p, i + 1)

Contains(s, p) == IndexFrom(s, p, 1) # 0

\* first position >= i of s whose character is not in class (Len(s)+1 if none)
RECURSIVE SkipClass(_, _, _)
SkipClass(s, i, class) ==
  IF i > Len(s) THEN i
  ELSE IF s[i] \in class THEN SkipClass(s, i + 1, class)
  ELSE i

\* s[i..j-1]
Slice(s, i, j) == SubSeq(s, i, j - 1)

\* String.prototype.trim
RECURSIVE TrimLeft(_)
TrimLeft(s) == IF s # <<>> /\ Head(s) \in SpaceChars THEN TrimLeft(Tail(s)) ELSE s
RECURSIVE TrimRight(_)
TrimRight(s) ==
  IF s # <<>> /\ s[Len(s)] \in SpaceChars THEN TrimRight(SubSeq(s, 1, Len(s) - 1)) ELSE s
Trim(s) == TrimRight(TrimLeft(s))

\* s.split(".")
RECURSIVE SplitDot(_)
SplitDot(s) ==
  LET i == IndexFrom(s, <<".">>, 1)
  IN IF i = 0 THEN <<s>> ELSE <<Slice(s, 1, i)>> \o SplitDot(SubSeq(s, i + 1, Len(s)))

\* decimal text of a natural number: String(n)
RECURSIVE NumToStr(_)
NumToStr(n) ==
  IF n < 10 THEN <<DigitSeq[n + 1]>>
  ELSE NumToStr(n \div 10) \o <<DigitSeq[(n % 10) + 1]>>

DigitVal(c) == (CHOOSE i \in 1..10 : DigitSeq[i] = c) - 1

RECURSIVE StrToNum(_)
StrToNum(s) ==
  IF s = <<>> THEN 0
  ELSE 10 * StrToNum(SubSeq(s, 1, Len(s) - 1)) + DigitVal(s[Len(s)])

\* String.prototype.toUpperCase / toLowerCase on one character
UpperChar(c) ==
  IF c \in Range(LowerSeq) THEN UpperSeq[CHOOSE i \in 1..26 : LowerSeq[i] = c] ELSE c
LowerChar(c) ==
  IF c \in Range(UpperSeq) THEN LowerSeq[CHOOSE i \in 1..26 : UpperSeq[i] = c] ELSE c
ToUpperCase(s) == [i \in DOMAIN s |-> UpperChar(s[i])]
ToLowerCase(s) == [i \in DOMAIN s |-> LowerChar(s[i])]

----------------------------------------------------------------------------
(* JavaScript values *)

Undef == [t |-> "undef"]
Null == [t |-> "null"]
Bool(b) == [t |-> "bool", b |-> b]
Num(n) == [t |-> "num", n |-> n]
NaN == [t |-> "nan"]
\* Infinity and -Infinity
Infinity(neg) == [t |-> "inf", neg |-> neg]
Str(s) == [t |-> "str", s |-> s]
Arr(a) == [t |-> "arr", a |-> a]
Obj(o) == [t |-> "obj", o |-> o]
\* a function object; f is its name
Fn(f) == [t |-> "fn", f |-> f]
\* an object without a prototype (Object.create(null)): String() of it raises
\* a TypeError
Bare == [t |-> "bare"]

\* words used as text
W_function == <<"f","u","n","c","t","i","o","n">>
W_native == <<"(",")"," ","{"," ","[","n","a","t","i","v","e"," ","c","o","d","e","]"," ","}">>
W_objectObject == <<"[","o","b","j","e","c","t"," ","O","b","j","e","c","t","]">>
W_undefined == <<"u","n","d","e","f","i","n","e","d">>
W_null == <<"n","u","l","l">>
W_true == <<"t","r","u","e">>
W_false == <<"f","a","l","s","e">>
W_NaN == <<"N","a","N">>
W_Infinity == <<"I","n","f","i","n","i","t","y">>
W_toString == <<"t","o","S","t","r","i","n","g">>
W_valueOf == <<"v","a","l","u","e","O","f">>
W_length == <<"l","e","n","g","t","h">>

\* The properties every object and array inherits from Object.prototype,
\* which the `in` operator of resolveValue and getPropertyValue sees
\* (a representative subset of the standard names).
ObjectProtoKeys == {W_toString, W_valueOf}

\* String(v)
RECURSIVE ToStr(_)
RECURSIVE JoinComma(_)
ToStr(v) ==
  CASE v.t = "undef" -> W_undefined
    [] v.t = "null" -> W_null
    [] v.t = "bool" -> IF v.b THEN W_true ELSE W_false
    [] v.t = "num" -> IF v.n < 0 THEN <<"-">> \o NumToStr(0 - v.n) ELSE NumToStr(v.n)
    [] v.t = "nan" -> W_NaN
    [] v.t = "inf" -> IF v.neg THEN <<"-">> \o W_Infinity ELSE W_Infinity
    [] v.t = "str" -> v.s
    [] v.t = "arr" -> JoinComma(v.a)
    [] v.t = "obj" -> W_objectObject
    [] v.t = "fn" -> W_function \o <<" ">> \o v.f \o W_native
\* Array.prototype.join(","): null and undefined elements give the empty text
JoinComma(a) ==
  IF a = <<>> THEN <<>>
  ELSE LET h == IF Head(a).t \in {"undef", "null"} THEN <<>> ELSE ToStr(Head(a))
       IN IF Len(a) = 1 THEN h ELSE h \o <<",">> \o JoinComma(Tail(a))

\* v ?? ""
OrEmpty(v) == IF v.t \in {"undef", "null"} THEN Str(<<>>) ELSE v

\* typeof v === "object" && v !== null
IsObjectLike(v) == v.t \in {"obj", "arr"}

IsIndexOf(key, a) ==
  /\ key # <<>>
  /\ Range(key) \subseteq Digits
  /\ NumToStr(StrToNum(key)) = key
  /\ StrToNum(key) < Len(a)

\* key in v, for an object or an array v
HasProp(v, key) ==
  \/ key \in ObjectProtoKeys
  \/ v.t = "obj" /\ key \in DOMAIN v.o
  \/ v.t = "arr" /\ (key = W_length \/ IsIndexOf(key, v.a))

\* v[key], given HasProp(v, key)
GetProp(v, key) ==
  IF v.t = "obj" /\ key \in DOMAIN v.o THEN v.o[key]
  ELSE IF v.t = "arr" /\ key = W_length THEN Num(Len(v.a))
  ELSE IF v.t = "arr" /\ IsIndexOf(key, v.a) THEN v.a[StrToNum(key) + 1]
  ELSE Fn(key)

\* SimpleTemplateEngine.resolveValue
RECURSIVE ResolveParts(_, _)
ResolveParts(parts, value) ==
  IF parts = <<>> THEN value
  ELSE IF value.t \in {"undef", "null"} THEN Undef
  ELSE IF IsObjectLike(value) /\ HasProp(value, Head(parts))
       THEN ResolveParts(Tail(parts), GetProp(value, Head(parts)))
  ELSE Undef

resolveValue(path, context) == ResolveParts(SplitDot(path), context)

\* SimpleTemplateEngine.getPropertyValue
getPropertyValue(obj, prop) ==
  IF obj.t \in {"undef", "null"} THEN Undef
  ELSE IF IsObjectLike(obj) /\ HasProp(obj, prop) THEN GetProp(obj, prop)
  ELSE Undef

\* isTruthy written as JavaScript's own truthiness, where 0 is falsy too
isTruthy_ZeroFalsy(value) ==
  IF value = Bool(FALSE) \/ value.t = "null" \/ value.t = "undef" THEN FALSE
  ELSE IF value.t = "arr" /\ Len(value.a) = 0 THEN FALSE
  ELSE IF value = Str(<<>>) \/ value = Num(0) THEN FALSE
  ELSE TRUE

\* SimpleTemplateEngine.isTruthy
isTruthy(value) ==
  IF value = Bool(FALSE) \/ value.t = "null" \/ value.t = "undef" THEN FALSE
  ELSE IF value.t = "arr" /\ Len(value.a) = 0 THEN FALSE
  ELSE IF value = Str(<<>>) THEN FALSE
  ELSE TRUE

\* SimpleTemplateEngine.escapeHtml
EscapeChar(c) ==
  CASE c = "&" -> <<"&","a","m","p",";">>
    [] c = "<" -> <<"&","l","t",";">>
    [] c = ">" -> <<"&","g","t",";">>
    [] c = "\"" -> <<"&","q","u","o","t",";">>
    [] c = "'" -> <<"&","#","0","3","9",";">>
    [] OTHER -> <<c>>

escapeHtml(text) == Flatten([i \in DOMAIN text |-> EscapeChar(text[i])])

----------------------------------------------------------------------------
(* Marker text *)

OB == <<"{","{">>
CB == <<"}","}">>
OB3 == <<"{","{","{">>
CB3 == <<"}","}","}">>
W_each == <<"#","e","a","c","h">>
W_endEach == <<"{","{","/","e","a","c","h","}","}">>
W_if == <<"#","i","f">>
W_else == <<"{","{","e","l","s","e","}","}">>
W_endIf == <<"{","{","/","i","f","}","}">>
W_this == <<"t","h","i","s">>
W_thisDot == <<"t","h","i","s",".">>
W_index == <<"@","i","n","d","e","x">>
W_first == <<"@","f","i","r","s","t">>
W_last == <<"@","l","a","s","t">>

NoMatch == [ok |-> FALSE]

----------------------------------------------------------------------------
(* String.prototype.replace with a replacement STRING: the patterns $$, $&,  *)
(* $` and $' of the replacement are expanded (the regular expressions that  *)
(* are replaced this way have no capture group, so $1..$9 stay literal).     *)

RECURSIVE ExpandReplacement(_, _, _, _)
ExpandReplacement(rep, matched, before, after) ==
  IF rep = <<>> THEN <<>>
  ELSE IF Head(rep) = "$" /\ Len(rep) >= 2 /\ rep[2] \in {"$", "&", "`", "'"}
       THEN (CASE rep[2] = "$" -> <<"$">>
               [] rep[2] = "&" -> matched
               [] rep[2] = "`" -> before
               [] rep[2] = "'" -> after)
            \o ExpandReplacement(SubSeq(rep, 3, Len(rep)), matched, before, after)
  ELSE <<Head(rep)>> \o ExpandReplacement(Tail(rep), matched, before, after)

\* s.replace(pat, rep) for a pattern STRING pat: the first occurrence only
ReplaceFirstString(s, pat, rep) ==
  LET i == IndexFrom(s, pat, 1)
  IN IF i = 0 THEN s
     ELSE LET before == Slice(s, 1, i)
              after == SubSeq(s, i + Len(pat), Len(s))
          IN before \o ExpandReplacement(rep, pat, before, after) \o after

----------------------------------------------------------------------------
(* The regular expressions, each as the match it finds at position i *)

\* open \s* word \s* close, for a fixed word: /\{\{\s*this\s*\}\}/ and the like
MatchWordMarker(s, i, word) ==
  IF ~MatchAt(s, i, OB) THEN NoMatch
  ELSE LET a == SkipClass(s, i + 2, SpaceChars)
       IN IF ~MatchAt(s, a, word) THEN NoMatch
          ELSE LET b == SkipClass(s, a + Len(word), SpaceChars)
               IN IF MatchAt(s, b, CB) THEN [ok |-> TRUE, end |-> b + 2] ELSE NoMatch

\* open \s* prefix (class+) \s* close, capturing the class+ part
MatchCapture(s, i, open, prefix, class, close) ==
  IF ~MatchAt(s, i, open) THEN NoMatch
  ELSE LET a == SkipClass(s, i + Len(open), SpaceChars)
       IN IF ~MatchAt(s, a, prefix) THEN NoMatch
          ELSE LET b == a + Len(prefix)
                   c == SkipClass(s, b, class)
                   d == SkipClass(s, c, SpaceChars)
               IN IF c > b /\ MatchAt(s, d, close)
                  THEN [ok |-> TRUE, end |-> d + Len(close), cap |-> Slice(s, b, c)]
                  ELSE NoMatch

\* /\{\{#(each|if)\s+([a-zA-Z0-9_.]+)\s*\}\}/ : the opening marker of a block
MatchBlockOpen(s, i, kw) ==
  IF ~MatchAt(s, i, OB \o kw) THEN NoMatch
  ELSE LET a == i + 2 + Len(kw)
           b == SkipClass(s, a, SpaceChars)
           c == SkipClass(s, b, PathChars)
           d == SkipClass(s, c, SpaceChars)
       IN IF b > a /\ c > b /\ MatchAt(s, d, CB)
          THEN [ok |-> TRUE, end |-> d + 2, cap |-> Slice(s, b, c)]
          ELSE NoMatch

\* eachRegex: /\{\{#each\s+([a-zA-Z0-9_.]+)\s*\}\}([\s\S]*?)\{\{\/each\}\}/
MatchEach(s, i) ==
  LET h == MatchBlockOpen(s, i, W_each)
  IN IF ~h.ok THEN NoMatch
     ELSE LET c == IndexFrom(s, W_endEach, h.end)
          IN IF c = 0 THEN NoMatch
             ELSE [ok |-> TRUE, end |-> c + Len(W_endEach),
                   arrayPath |-> h.cap, content |-> Slice(s, h.end, c)]

\* the lazy body of ifRegex: the first position p >= from where either
\* {{else}} starts and a {{/if}} follows it, or {{/if}} starts
RECURSIVE IfBodyEnd(_, _)
IfBodyEnd(s, p) ==
  IF p > Len(s) THEN 0
  ELSE IF MatchAt(s, p, W_else) /\ IndexFrom(s, W_endIf, p + Len(W_else)) # 0 THEN p
  ELSE IF MatchAt(s, p, W_endIf) THEN p
  ELSE IfBodyEnd(s, p + 1)

\* ifRegex:
\* /\{\{#if\s+([a-zA-Z0-9_.]+)\s*\}\}([\s\S]*?)(?:\{\{else\}\}([\s\S]*?))?\{\{\/if\}\}/
MatchIf(s, i) ==
  LET h == MatchBlockOpen(s, i, W_if)
  IN IF ~h.ok THEN NoMatch
     ELSE LET p == IfBodyEnd(s, h.end)
          IN IF p = 0 THEN NoMatch
             ELSE IF MatchAt(s, p, W_else)
                  THEN LET q == IndexFrom(s, W_endIf, p + Len(W_else))
                       IN [ok |-> TRUE, end |-> q + Len(W_endIf), condition |-> h.cap,
                           truthyContent |-> Slice(s, h.end, p),
                           \* falsyContent
                           falsyContent |-> Slice(s, p + Len(W_else), q)]
                  ELSE [ok |-> TRUE, end |-> p + Len(W_endIf), condition |-> h.cap,
                        truthyContent |-> Slice(s, h.end, p),
                        \* the group did not take part: the default "" applies
                        falsyContent |-> <<>>]

\* helperRegex: /\{\{([a-zA-Z0-9_]+)\s+([^}]+)\}\}/
MatchHelper(s, i) ==
  IF ~MatchAt(s, i, OB) THEN NoMatch
  ELSE LET a == i + 2
           b == SkipClass(s, a, WordChars)
           c == SkipClass(s, b, SpaceChars)
           e == IndexFrom(s, <<"}">>, c)
           \* \s+ is greedy and gives one character back when [^}]+ would be empty
           g == IF c < e THEN c ELSE c - 1
       IN IF b > a /\ c > b /\ e # 0 /\ g > b /\ MatchAt(s, e, CB)
          THEN [ok |-> TRUE, end |-> e + 2, helperName |-> Slice(s, a, b),
                argsString |-> Slice(s, g, e), match |-> Slice(s, i, e + 2)]
          ELSE NoMatch

\* partialRegex: /\{\{>\s*([a-zA-Z0-9/_-]+)\s*\}\}/
MatchPartial(s, i) ==
  LET m == MatchCapture(s, i, OB \o <<">">>, <<>>, PartialChars, CB)
  IN IF m.ok THEN [ok |-> TRUE, end |-> m.end, name |-> m.cap, match |-> Slice(s, i, m.end)]
     ELSE NoMatch

\* [...template.matchAll(partialRegex)]
RECURSIVE MatchAllPartials(_, _)
MatchAllPartials(s, i) ==
  IF i > Len(s) THEN <<>>
  ELSE LET m == MatchPartial(s, i)
       IN IF m.ok THEN <<[match |-> m.match, name |-> m.name]>> \o MatchAllPartials(s, m.end)
          ELSE MatchAllPartials(s, i + 1)

----------------------------------------------------------------------------
(* Helper functions.  A helper function is named by a tag; Call gives what   *)
(* calling it with args does: [threw |-> TRUE] when its body raises, or      *)
(* [threw |-> FALSE, val |-> the returned value].                            *)

W_date == <<"d","a","t","e">>
W_upper == <<"u","p","p","e","r">>
W_lower == <<"l","o","w","e","r">>
W_truncate == <<"t","r","u","n","c","a","t","e">>
W_currency == <<"c","u","r","r","e","n","c","y">>
W_double == <<"d","o","u","b","l","e">>
W_boom == <<"b","o","o","m">>
W_ok == <<"o","k">>
W_InvalidDate == <<"I","n","v","a","l","i","d"," ","D","a","t","e">>
W_localeDate == <<"1","/","1","/","1","9","7","0">>
W_localeTime == <<","," ","0",":","0","0",":","0","0">>
W_short == <<"s","h","o","r","t">>

\* args[k], undefined when fewer arguments were passed
ArgAt(args, k) == IF k <= Len(args) THEN args[k] ELSE Undef

IsNumeral(s) == Range(s) \subseteq Digits

\* Number(v), on the naturals
ToNumber(v) ==
  CASE v.t = "num" -> v
    [] v.t = "null" -> Num(0)
    [] v.t = "bool" -> Num(IF v.b THEN 1 ELSE 0)
    [] v.t = "str" -> IF IsNumeral(v.s) THEN Num(StrToNum(v.s)) ELSE NaN
    [] v.t = "inf" -> v
    [] OTHER -> NaN

Returned(v) == [threw |-> FALSE, val |-> v]
Threw == [threw |-> TRUE]

\* the helper bodies of registerDefaultHelpers and of the tests
Call(fn, args) ==
  LET a1 == ArgAt(args, 1)
      a2 == ArgAt(args, 2)
  IN CASE fn = "upper" -> Returned(Str(ToUpperCase(ToStr(a1))))
       [] fn = "lower" -> Returned(Str(ToLowerCase(ToStr(a1))))
       [] fn = "truncate" ->
            LET text == ToStr(a1)
                length == IF a2.t = "undef" THEN Num(50) ELSE ToNumber(a2)
            IN IF length.t = "num" /\ Len(text) > length.n
               THEN Returned(Str(SubSeq(text, 1, length.n) \o <<".", ".", ".">>))
               ELSE Returned(Str(text))
       \* new Date(date).toLocaleString(): locale text, "Invalid Date" for no date
       [] fn = "date" ->
            IF ToNumber(a1).t # "num" THEN Returned(Str(W_InvalidDate))
            ELSE IF a2 = Str(W_short) THEN Returned(Str(W_localeDate))
            ELSE Returned(Str(W_localeDate \o W_localeTime))
       \* `$${amount.toFixed(2)}`: toFixed exists on numbers only
       [] fn = "currency" ->
            IF a1.t = "num" THEN Returned(Str(<<"$">> \o ToStr(a1) \o <<".", "0", "0">>))
            ELSE IF a1.t \in {"inf", "nan"} THEN Returned(Str(<<"$">> \o ToStr(a1)))
            ELSE Threw
       \* (n) => String(n * 2)
       [] fn = "double" ->
            IF ToNumber(a1).t = "num" THEN Returned(Str(NumToStr(2 * ToNumber(a1).n)))
            ELSE Returned(Str(W_NaN))
       \* () => { throw new Error("fail") }
       [] fn = "boom" -> Threw
       \* () => "ok"
       [] fn = "ok" -> Returned(Str(W_ok))

\* SimpleTemplateEngine.registerDefaultHelpers
EngineDefaultHelpers ==
  (W_date :> "date") @@ (W_upper :> "upper") @@ (W_lower :> "lower")
    @@ (W_truncate :> "truncate")

\* argsString.split(/\s+/)
RECURSIVE SplitSpaces(_)
SplitSpaces(s) ==
  LET i == SkipClass(s, 1, {c \in Range(s) : c \notin SpaceChars})
  IN IF i > Len(s) THEN <<s>>
     ELSE <<Slice(s, 1, i)>> \o SplitSpaces(SubSeq(s, SkipClass(s, i, SpaceChars), Len(s)))

\* the argument conversion of processHelpers (the callback of map)
EngineArg(arg, context) ==
  IF Len(arg) >= 1 /\ Head(arg) = "\"" /\ arg[Len(arg)] = "\""
  THEN Str(SubSeq(arg, 2, Len(arg) - 1))
  ELSE IF IsNumeral(arg) THEN Num(StrToNum(arg))
  ELSE resolveValue(arg, context)

EngineArgs(argsString, context) ==
  LET toks == SplitSpaces(argsString)
  IN [k \in DOMAIN toks |-> EngineArg(toks[k], context)]

\* does token arg reach resolveValue in processHelpers ?
IsPathToken(arg) ==
  /\ ~(Len(arg) >= 1 /\ Head(arg) = "\"" /\ arg[Len(arg)] = "\"")
  /\ ~IsNumeral(arg)

\* what the try/catch of processHelpers returns for the call of a helper
HelperReplacement(r) == IF r.threw THEN <<>> ELSE ToStr(r.val)

----------------------------------------------------------------------------
(* The stages: template.replace(regex, callback) over the whole text.        *)
(* Replace(kind, s, i, env) is the text of s from position i on with every   *)
(* non-overlapping match of the stage's expression, leftmost first, replaced;*)
(* the replacement text is not scanned again by the same pass.               *)

RECURSIVE Replace(_, _, _, _)

\* the body of one #each iteration (the callback of array.map), lines 230-258
EachItem(content, item, index, n) ==
  LET c1 == Replace("thisProp", content, 1, [item |-> item])
      c2 == Replace("this", c1, 1, [rep |-> escapeHtml(ToStr(item))])
      c3 == Replace("word", c2, 1, [word |-> W_index, rep |-> NumToStr(index)])
      c4 == Replace("word", c3, 1,
                    [word |-> W_first, rep |-> ToStr(Bool(index = 0))])
      c5 == Replace("word", c4, 1,
                    [word |-> W_last, rep |-> ToStr(Bool(index = n - 1))])
  IN c5

\* the callback of processEach, lines 224-260
EachReplacement(m, context) ==
  LET array == resolveValue(m.arrayPath, context)
  IN IF array.t # "arr" THEN <<>>
     ELSE Flatten([k \in DOMAIN array.a |-> EachItem(m.content, array.a[k], k - 1, Len(array.a))])

\* the callback of processIf, lines 291-301
IfReplacement(m, context) ==
  IF isTruthy(resolveValue(m.condition, context)) THEN m.truthyContent ELSE m.falsyContent

\* the callback of processHelpers, lines 324-342
HelperStageReplacement(m, context, hs) ==
  IF m.helperName \notin DOMAIN hs THEN m.match
  ELSE HelperReplacement(Call(hs[m.helperName], EngineArgs(m.argsString, context)))

\* the match of the stage `kind` at position i of s, with its replacement
StageMatch(kind, s, i, env) ==
  CASE kind = "each" ->
         LET m == MatchEach(s, i)
         IN IF m.ok THEN [ok |-> TRUE, end |-> m.end, rep |-> EachReplacement(m, env.ctx)]
            ELSE NoMatch
    [] kind = "if" ->
         LET m == MatchIf(s, i)
         IN IF m.ok THEN [ok |-> TRUE, end |-> m.end, rep |-> IfReplacement(m, env.ctx)]
            ELSE NoMatch
    [] kind = "helpers" ->
         LET m == MatchHelper(s, i)
         IN IF m.ok
            THEN [ok |-> TRUE, end |-> m.end,
                  rep |-> HelperStageReplacement(m, env.ctx, env.helpers)]
            ELSE NoMatch
    [] kind = "raw" ->
         LET m == MatchCapture(s, i, OB3, <<>>, PathChars, CB3)
         IN IF m.ok
            THEN [ok |-> TRUE, end |-> m.end,
                  rep |-> ToStr(OrEmpty(resolveValue(m.cap, env.ctx)))]
            ELSE NoMatch
    [] kind = "escaped" ->
         LET m == MatchCapture(s, i, OB, <<>>, PathChars, CB)
         IN IF m.ok
            THEN [ok |-> TRUE, end |-> m.end,
                  rep |-> escapeHtml(ToStr(OrEmpty(resolveValue(m.cap, env.ctx))))]
            ELSE NoMatch
    \* /\{\{\s*this\.([a-zA-Z0-9_]+)\s*\}\}/g with a callback
    [] kind = "thisProp" ->
         LET m == MatchCapture(s, i, OB, W_thisDot, WordChars, CB)
         IN IF m.ok
            THEN [ok |-> TRUE, end |-> m.end,
                  rep |-> escapeHtml(ToStr(OrEmpty(getPropertyValue(env.item, m.cap))))]
            ELSE NoMatch
    \* /\{\{\s*this\s*\}\}/g with a replacement string
    [] kind = "this" ->
         LET m == MatchWordMarker(s, i, W_this)
         IN IF m.ok
            THEN [ok |-> TRUE, end |-> m.end,
                  rep |-> ExpandReplacement(env.rep, Slice(s, i, m.end), Slice(s, 1, i),
                                            SubSeq(s, m.end, Len(s)))]
            ELSE NoMatch
    \* /\{\{\s*@index\s*\}\}/g and the like, with a replacement string
    [] kind = "word" ->
         LET m == MatchWordMarker(s, i, env.word)
         IN IF m.ok
            THEN [ok |-> TRUE, end |-> m.end,
                  rep |-> ExpandReplacement(env.rep, Slice(s, i, m.end), Slice(s, 1, i),
                                            SubSeq(s, m.end, Len(s)))]
            ELSE NoMatch

Replace(kind, s, i, env) ==
  IF i > Len(s) THEN <<>>
  ELSE LET m == StageMatch(kind, s, i, env)
       IN IF m.ok THEN m.rep \o Replace(kind, s, m.end, env)
          ELSE <<s[i]>> \o Replace(kind, s, i + 1, env)

\* SimpleTemplateEngine.processEach
processEach(template, context) == Replace("each", template, 1, [ctx |-> context])

\* SimpleTemplateEngine.processIf
processIf(template, context) == Replace("if", template, 1, [ctx |-> context])

\* SimpleTemplateEngine.processHelpers
processHelpers(template, context, hs) ==
  Replace("helpers", template, 1, [ctx |-> context, helpers |-> hs])

\* SimpleTemplateEngine.processInterpolation
processInterpolation(template, context) ==
  Replace("escaped", Replace("raw", template, 1, [ctx |-> context]), 1, [ctx |-> context])

\* does a pass of processInterpolation over s, from position i on, call
\* String() on a value that cannot be converted ?
RECURSIVE PassRaises(_, _, _, _)
PassRaises(raw, s, i, context) ==
  IF i > Len(s) THEN FALSE
  ELSE LET m == IF raw THEN MatchCapture(s, i, OB3, <<>>, PathChars, CB3)
                 ELSE MatchCapture(s, i, OB, <<>>, PathChars, CB)
       IN IF m.ok
          THEN resolveValue(m.cap, context) = Bare \/ PassRaises(raw, s, m.end, context)
          ELSE PassRaises(raw, s, i + 1, context)

\* does processInterpolation(template, context) raise ?
InterpolationRaises(template, context) ==
  \/ PassRaises(TRUE, template, 1, context)
  \/ PassRaises(FALSE, Replace("raw", template, 1, [ctx |-> context]), 1, context)

\* SimpleTemplateEngine.render and processPartials as functions of the
\* template and of the files that readFile resolves (files: name -> text).
\* renderResult is what render settles with: raises tells whether it rejects
\* (the interpolation stage is the one that can raise), html is the text it
\* resolves with.

\* render, line 82, over the text the first four stages left
InterpolationResult(beforeInterpolation, context) ==
  IF InterpolationRaises(beforeInterpolation, context) THEN [raises |-> TRUE, html |-> <<>>]
  ELSE [raises |-> FALSE, html |-> processInterpolation(beforeInterpolation, context)]

\* processPartials, lines 176-184: the text put in place of a partial whose
\* file was read; the catch takes a nested render that rejects
RenderedPartial(nested) == IF nested.raises THEN <<>> ELSE nested.html

RECURSIVE renderResult(_, _, _, _)
RECURSIVE PartialsFrom(_, _, _, _, _, _)
\* the loop of processPartials from match k on
PartialsFrom(result, matches, k, context, files, hs) ==
  IF k > Len(matches) THEN result
  ELSE PartialsFrom(
         ReplaceFirstString(
           result, matches[k].match,
           IF matches[k].name \in DOMAIN files
           THEN RenderedPartial(renderResult(files[matches[k].name], context, files, hs))
           ELSE <<>>),
         matches, k + 1, context, files, hs)

processPartials(template, context, files, hs) ==
  PartialsFrom(template, MatchAllPartials(template, 1), 1, context, files, hs)

renderResult(template, context, files, hs) ==
  InterpolationResult(
    processHelpers(
      processIf(
        processEach(processPartials(template, context, files, hs), context),
        context),
      context, hs),
    context)

\* does render(template, context) reject ?
renderRaises(template, context, files, hs) ==
  renderResult(template, context, files, hs).raises

\* the text render(template, context) resolves with
render(template, context, files, hs) == renderResult(template, context, files, hs).html

----------------------------------------------------------------------------
(* What the helper stage did, for the claims about failures: the calls of    *)
(* registered helpers made by processHelpers over the text, in order.        *)

RECURSIVE HelperCalls(_, _, _, _)
HelperCalls(s, i, context, hs) ==
  IF i > Len(s) THEN <<>>
  ELSE LET m == MatchHelper(s, i)
       IN IF ~m.ok THEN HelperCalls(s, i + 1, context, hs)
          ELSE IF m.helperName \notin DOMAIN hs THEN HelperCalls(s, m.end, context, hs)
          ELSE LET toks == SplitSpaces(m.argsString)
                   args == EngineArgs(m.argsString, context)
               IN <<[name |-> m.helperName,
                     threw |-> Call(hs[m.helperName], args).threw,
                     undefArg |-> \E k \in DOMAIN toks :
                                     IsPathToken(toks[k]) /\ args[k].t = "undef"]>>
                  \o HelperCalls(s, m.end, context, hs)

----------------------------------------------------------------------------
(* HelpersManager *)

\* HelpersManager.registerDefaultHelpers
ManagerDefaultHelpers ==
  (W_date :> "date") @@ (W_upper :> "upper") @@ (W_lower :> "lower")
    @@ (W_truncate :> "truncate") @@ (W_currency :> "currency")

\* Number(text) for a string: white space is trimmed, the empty text is 0,
\* an optional sign is followed by decimal digits or by Infinity; any other
\* text is NaN (numerals with a fraction, an exponent or a radix prefix are
\* not among the texts of the model).
NumberOfText(text) ==
  LET t == Trim(text)
      signed == t # <<>> /\ Head(t) \in {"+", "-"}
      neg == t # <<>> /\ Head(t) = "-"
      body == IF signed THEN Tail(t) ELSE t
  IN IF t = <<>> THEN Num(0)
     ELSE IF body = W_Infinity THEN Infinity(neg)
     ELSE IF body # <<>> /\ IsNumeral(body)
          THEN Num(IF neg THEN 0 - StrToNum(body) ELSE StrToNum(body))
     ELSE NaN

\* HelpersManager.parseArgument
parseArgument(arg, context) ==
  IF Len(arg) >= 1 /\ Head(arg) = "\"" /\ arg[Len(arg)] = "\""
  THEN Str(SubSeq(arg, 2, Len(arg) - 1))
  ELSE IF NumberOfText(arg) # NaN /\ arg # <<>> THEN NumberOfText(arg)
  ELSE IF arg = W_true THEN Bool(TRUE)
  ELSE IF arg = W_false THEN Bool(FALSE)
  ELSE IF arg = W_null THEN Null
  ELSE resolveValue(arg, context)

\* the loop of HelpersManager.parseArgs from character i on, lines 578-595
RECURSIVE ParseArgsFrom(_, _, _, _, _, _)
ParseArgsFrom(argsString, i, args, currentArg, inQuotes, context) ==
  IF i > Len(argsString)
  THEN IF Trim(currentArg) # <<>>
       THEN Append(args, parseArgument(Trim(currentArg), context))
       ELSE args
  ELSE LET char == argsString[i]
       IN IF char = "\"" /\ (i = 1 \/ argsString[i - 1] # "\\")
          THEN ParseArgsFrom(argsString, i + 1, args, Append(currentArg, char),
                             ~inQuotes, context)
          ELSE IF char = " " /\ ~inQuotes /\ Trim(currentArg) # <<>>
          THEN ParseArgsFrom(argsString, i + 1,
                             Append(args, parseArgument(Trim(currentArg), context)),
                             <<>>, inQuotes, context)
          ELSE ParseArgsFrom(argsString, i + 1, args, Append(currentArg, char),
                             inQuotes, context)

\* HelpersManager.parseArgs
parseArgs(argsString, context) == ParseArgsFrom(argsString, 1, <<>>, <<>>, FALSE, context)

\* the texts the loop of parseArgs hands to parseArgument, in order: the same
\* loop with currentArg.trim() collected in place of its parsed value
RECURSIVE TokensFrom(_, _, _, _, _)
TokensFrom(argsString, i, toks, currentArg, inQuotes) ==
  IF i > Len(argsString)
  THEN IF Trim(currentArg) # <<>> THEN Append(toks, Trim(currentArg)) ELSE toks
  ELSE LET char == argsString[i]
       IN IF char = "\"" /\ (i = 1 \/ argsString[i - 1] # "\\")
          THEN TokensFrom(argsString, i + 1, toks, Append(currentArg, char), ~inQuotes)
          ELSE IF char = " " /\ ~inQuotes /\ Trim(currentArg) # <<>>
          THEN TokensFrom(argsString, i + 1, Append(toks, Trim(currentArg)), <<>>, inQuotes)
          ELSE TokensFrom(argsString, i + 1, toks, Append(currentArg, char), inQuotes)

\* HelpersManager.has
has(hs, name) == name \in DOMAIN hs

\* HelpersManager.get: the registered function, or undefined
get(hs, name) == IF name \in DOMAIN hs THEN [t |-> "helper", fn |-> hs[name]] ELSE Undef

\* register() that keeps the function a name already has
register_KeepExisting(hs, name, fn) == hs @@ (name :> fn)

\* HelpersManager.register: Map.set
register(hs, name, fn) == (name :> fn) @@ hs

\* HelpersManager.remove: Map.delete, the map afterwards and the value returned
remove(hs, name) ==
  [map |-> [n \in DOMAIN hs \ {name} |-> hs[n]], returns |-> Bool(name \in DOMAIN hs)]

\* HelpersManager.clear: Map.clear
clear(hs) == <<>>

\* no call made yet
NoCall == [op |-> "none"]

\* what a call gave its caller
ReturnedValue(v) == [kind |-> "returned", val |-> v]
ThrewException(e) == [kind |-> "threw", exc |-> e]

\* HelpersManager.execute, lines 531-546
execute(hs, name, argsString, context) ==
  IF name \notin DOMAIN hs THEN ReturnedValue(Str(<<>>))
  ELSE LET r == Call(hs[name], parseArgs(argsString, context))
       IN IF r.threw THEN ReturnedValue(Str(<<>>)) ELSE ReturnedValue(r.val)

----------------------------------------------------------------------------
(* The render context and the templates of the model *)

Sp == <<" ">>
K(c) == <<c>>
W_items == <<"i","t","e","m","s">>
W_strs == <<"s","t","r","s">>
W_prods == <<"p","r","o","d","s">>
W_price == <<"p","r","i","c","e">>
W_inj == <<"i","n","j">>
W_nope == <<"n","o","p","e">>

\* the data passed to render(): strings with the five HTML characters, with
\* marker text and with replacement patterns, the values the truthiness
\* policy names, arrays of objects and of strings
Ctx ==
  Obj(   (K("u") :> Obj((K("n") :> Str(<<"j","u","a","n">>))))
      @@ (K("h") :> Str(<<"<","&",">","\"","'">>))
      @@ (K("w") :> Str(<<"a","&","b">>))
      @@ (K("s") :> Str(OB \o K("q") \o CB))
      @@ (K("q") :> Str(<<"<">>))
      @@ (K("z") :> Num(0))
      @@ (K("e") :> Str(<<>>))
      @@ (K("f") :> Bool(FALSE))
      @@ (K("t") :> Bool(TRUE))
      @@ (K("l") :> Null)
      @@ (K("a") :> Arr(<<>>))
      @@ (K("o") :> Obj(<<>>))
      @@ (W_price :> Num(10))
      @@ (W_items :> Arr(<<Obj(K("v") :> Str(<<"a">>)), Obj(K("v") :> Str(<<"b">>))>>))
      @@ (W_strs :> Arr(<<Str(<<"x">>), Str(<<"$","&">>)>>))
      @@ (W_inj :> Arr(<<Obj(K("v") :> Str(OB \o W_index \o CB))>>))
      @@ (W_prods :> Arr(<<Obj((K("n") :> Str(<<"a","b">>)) @@ (K("k") :> Bool(TRUE))),
                           Obj((K("n") :> Str(<<"c","d">>)) @@ (K("k") :> Bool(FALSE)))>>)))

P_u_n == <<"u",".","n">>
P_u_m == <<"u",".","m">>
P_m_x == <<"m",".","x">>
P_l_x == <<"l",".","x">>
P_h_x == <<"h",".","x">>
P_items_5 == W_items \o <<".","5">>
P_u_toString == <<"u",".">> \o W_toString

\* paths bound to a string value
StringPaths == {P_u_n, K("h"), K("w"), K("s"), K("q"), K("e")}
\* paths that name nothing the caller put in the context
AbsentPaths == {K("m"), P_u_m, P_m_x, P_l_x, P_h_x, P_items_5, W_toString, P_u_toString}
\* conditions of #if
CondPaths ==
  {K("t"), K("f"), K("l"), K("m"), K("e"), K("a"), K("z"), K("h"), K("o"), W_items,
   P_u_n, P_u_m, W_toString}
\* what #each iterates over
EachPaths == {W_items, W_strs, W_inj, W_prods, K("a"), K("u"), K("h"), K("m"), K("l")}

NoFiles == <<>>

Scenario(kind, tpl, files, path, body, flag) ==
  [kind |-> kind, tpl |-> tpl, files |-> files, path |-> path, body |-> body, flag |-> flag]

\* {{ p }}, {{p}}, {{{ p }}}, {{{p}}}
InterpTemplate(path, raw, spaced) ==
  (IF raw THEN OB3 ELSE OB) \o (IF spaced THEN Sp ELSE <<>>) \o path
    \o (IF spaced THEN Sp ELSE <<>>) \o (IF raw THEN CB3 ELSE CB)

InterpScenarios ==
  {Scenario("interp", InterpTemplate(p, raw, spaced), NoFiles, p, <<>>, raw) :
     p \in StringPaths \cup AbsentPaths \cup {K("l")}, raw \in BOOLEAN, spaced \in BOOLEAN}

\* {{#if x}}A{{else}}B{{/if}} and {{#if x}}A{{/if}}
IfTemplate(path, withElse) ==
  OB \o W_if \o Sp \o path \o CB \o K("A")
    \o (IF withElse THEN W_else \o K("B") ELSE <<>>) \o W_endIf

IfScenarios ==
  {Scenario("if", IfTemplate(p, e), NoFiles, p, <<>>, e) : p \in CondPaths, e \in BOOLEAN}

\* the bodies of #each: sequences of the markers of the syntax table and text
MarkerText(tok) ==
  CASE tok = "this.v" -> OB \o W_thisDot \o K("v") \o CB
    [] tok = "this.n" -> OB \o Sp \o W_thisDot \o K("n") \o Sp \o CB
    [] tok = "this" -> OB \o Sp \o W_this \o Sp \o CB
    [] tok = "@index" -> OB \o W_index \o CB
    [] tok = "@first" -> OB \o Sp \o W_first \o Sp \o CB
    [] tok = "@last" -> OB \o W_last \o CB
    [] OTHER -> K(tok)

EachBodies ==
  { <<"this.v", "-", "@index">>, <<"this.n", "@first", "@last", ";">>, <<"this", ",">>,
    <<"@index">>, <<"x">> }

EachTemplate(path, body) ==
  OB \o W_each \o Sp \o path \o CB
    \o Flatten([k \in DOMAIN body |-> MarkerText(body[k])]) \o W_endEach

EachScenarios ==
  {Scenario("each", EachTemplate(p, b), NoFiles, p, b, FALSE) : p \in EachPaths, b \in EachBodies}

\* later stages inside an #each body:
\*   {{#each prods}}{{#if this.k}}Y{{/if}}{{/each}}
\*   {{#each prods}}{{upper this.n}}{{/each}}
\*   {{#each prods}}{{#if @first}}F{{/if}}{{/each}}
NestedBody(which) ==
  CASE which = "if" -> OB \o W_if \o Sp \o W_thisDot \o K("k") \o CB \o K("Y") \o W_endIf
    [] which = "helper" -> OB \o W_upper \o Sp \o W_thisDot \o K("n") \o CB
    [] which = "first" -> OB \o W_if \o Sp \o W_first \o CB \o K("F") \o W_endIf

NestedScenarios ==
  {Scenario("nested", OB \o W_each \o Sp \o W_prods \o CB \o NestedBody(w) \o W_endEach,
            NoFiles, W_prods, w, FALSE) : w \in {"if", "helper", "first"}}

\* balanced blocks of one kind, one inside the other:
\*   {{#if t}}A{{#if t}}B{{/if}}C{{/if}}
\*   {{#if f}}A{{else}}D{{#if t}}B{{/if}}C{{/if}}
\*   {{#each items}}[{{#each strs}}x{{/each}}]{{/each}}
BalancedTemplate(which) ==
  CASE which = "if" ->
         OB \o W_if \o Sp \o K("t") \o CB \o K("A")
           \o OB \o W_if \o Sp \o K("t") \o CB \o K("B") \o W_endIf \o K("C") \o W_endIf
    [] which = "else" ->
         OB \o W_if \o Sp \o K("f") \o CB \o K("A") \o W_else \o K("D")
           \o OB \o W_if \o Sp \o K("t") \o CB \o K("B") \o W_endIf \o K("C") \o W_endIf
    [] which = "each" ->
         OB \o W_each \o Sp \o W_items \o CB \o K("[")
           \o OB \o W_each \o Sp \o W_strs \o CB \o K("x") \o W_endEach \o K("]") \o W_endEach

BalancedScenarios ==
  {Scenario("balanced", BalancedTemplate(w), NoFiles, <<>>, w, FALSE) :
     w \in {"if", "else", "each"}}

\* {{ h args }}: the helper name with or without the white space after the
\* opening braces, and the text that follows the name
HelperArgTexts ==
  { <<>>, Sp, Sp \o P_u_n, Sp \o P_u_n \o Sp, Sp \o K("m"), Sp \o W_price,
    Sp \o K("4") \o Sp \o K("2"), Sp \o <<"\"","h","i","\"">>,
    Sp \o <<"\"","a"," ","b","\"">>, Sp \o W_true }

HelperNames == {W_upper, W_truncate, W_double, W_boom, W_nope}

HelperTemplate(name, lead, args) ==
  OB \o (IF lead THEN Sp ELSE <<>>) \o name \o args \o CB

HelperScenarios ==
  {Scenario("helper", HelperTemplate(n, lead, a), NoFiles, n, a, lead) :
     n \in HelperNames, lead \in BOOLEAN, a \in HelperArgTexts}

\* templates with partials; the files of views/partials
W_head == <<"h","e","a","d">>
PartialMarker(name) == OB \o <<">">> \o Sp \o name \o Sp \o CB

PartialFiles ==
     (W_head :> <<"<","h",">">> \o OB \o Sp \o P_u_n \o Sp \o CB)
  @@ (K("i") :> OB \o W_if \o Sp \o K("t") \o CB)
  @@ (K("e") :> OB \o W_each \o Sp \o W_items \o CB)
  @@ (K("r") :> OB3 \o K("s") \o CB3)
  @@ (K("n") :> K("(") \o PartialMarker(W_head) \o K(")"))
  @@ (K("c") :> K("c") \o PartialMarker(K("c")))
  \* a price in HTML: R$&nbsp;5
  @@ (K("j") :> <<"R","$","&","n","b","s","p",";","5">>)

PartialTemplates ==
  { PartialMarker(W_head),
    PartialMarker(K("x")),
    PartialMarker(W_head) \o PartialMarker(K("x")) \o PartialMarker(W_head),
    \* the partial opens a block that the host template closes
    PartialMarker(K("i")) \o K("X") \o W_else \o K("Y") \o W_endIf,
    PartialMarker(K("e")) \o OB \o W_thisDot \o K("v") \o CB \o W_endEach,
    \* the partial's output carries an interpolation marker
    PartialMarker(K("r")),
    PartialMarker(K("n")) \o OB \o W_upper \o Sp \o P_u_n \o CB,
    PartialMarker(K("c")),
    K("[") \o PartialMarker(K("j")) \o K("]"),
    \* two markers, the first of a missing file
    PartialMarker(K("x")) \o K("-") \o PartialMarker(W_head) }

PartialScenarios ==
  {Scenario("partial", t, PartialFiles, <<>>, <<>>, FALSE) : t \in PartialTemplates}

Scenarios ==
  InterpScenarios \cup IfScenarios \cup EachScenarios \cup NestedScenarios
    \cup HelperScenarios \cup PartialScenarios \cup BalancedScenarios

\* the helpers an application registers with registerHelper before rendering
CustomHelpers == {<<W_double, "double">>, <<W_boom, "boom">>}

----------------------------------------------------------------------------
(* resolveValue called on its own: the paths and the contexts of the calls   *)

\* the segments the paths are made of: names of the data, names that the
\* data does not have, an index, and names every object inherits
ResolveSegments ==
  {K("u"), K("n"), K("l"), K("h"), K("z"), K("m"), K("0"), W_strs, W_length, W_toString}

\* the paths of one and of two segments
ResolvePaths ==
  ResolveSegments \cup {s \o <<".">> \o t : s, t \in ResolveSegments}

\* the contexts, by name
ResolveContexts == {"data", "{}"}

NoResolve == [kind |-> "none"]

\* no Router.resolve call was made
NoChain == [kind |-> "none"]

\* no direct call was made
NoUnitCall == resolved = NoResolve /\ chain = NoChain

----------------------------------------------------------------------------
(* RaptorEngine: the files of the views directory and the engine as          *)
(* constructed                                                               *)

W_html == <<".","h","t","m","l">>
W_layouts == <<"l","a","y","o","u","t","s">>
W_main == <<"m","a","i","n">>
W_alt == <<"a","l","t">>
W_lay == <<"l","a","y">>
W_fake == <<"f","a","k","e">>
W_content == <<"@","c","o","n","t","e","n","t">>
W_marker == <<"[","[","C","]","]">>

\* join(viewsDirectory, `${view}.html`), relative to viewsDirectory
ViewPath(view) == view \o W_html
\* join(viewsDirectory, "layouts", `${layout}.html`), relative to viewsDirectory
LayoutPath(layout) == W_layouts \o <<"/">> \o layout \o W_html

\* the view and layout files on disk
EngineFiles ==
     (LayoutPath(W_main) :> K("M") \o W_content \o K("|") \o W_content)
  @@ (LayoutPath(W_alt) :> K("A") \o W_marker)
  @@ (LayoutPath(W_lay) :> OB \o Sp \o P_u_n \o Sp \o CB \o K(":") \o W_content)
  @@ (LayoutPath(K("n")) :> K("N"))
  @@ (ViewPath(K("h")) :> K("H") \o OB \o Sp \o P_u_n \o Sp \o CB)
  @@ (ViewPath(K("p")) :> K("P"))
  @@ (ViewPath(K("d")) :> <<"$","&">>)
  @@ (ViewPath(K("q")) :> PartialMarker(K("x")) \o K("Q"))
  @@ (ViewPath(K("b")) :> OB \o K("b") \o CB)
  @@ (ViewPath(K("k")) :> K("K"))

\* files that exist and cannot be read (EACCES)
UnreadableFiles == {ViewPath(K("k"))}

\* does readFile(path) resolve ?
ReadResolves(path) == path \in DOMAIN EngineFiles /\ path \notin UnreadableFiles

\* the params of a render call, by name
ParamsOf(name) ==
  CASE name = "data" -> Ctx
    [] name = "bare" -> Obj(Ctx.o @@ (K("b") :> Bare))
    [] name = "{}" -> Obj(<<>>)

\* the field initialisers and the constructor of RaptorEngine
EngineConstructed ==
  /\ engine = [defaultLayout |-> W_main, contentAnnotation |-> W_content,
               cacheTemplates |-> <<>>]
  /\ reads = [path \in {} |-> <<>>]
  /\ renders = <<>>

----------------------------------------------------------------------------
(* SimpleTemplateEngine.render as a state machine: one frame per active      *)
(* render() call; a frame is suspended at `await readFile` or at             *)
(* `await this.render` while it is in the partials stage.                    *)

StageOrder == <<"partials", "each", "if", "helpers", "interpolation">>

\* render() with the #if pass written before the #each pass
NextStage_IfBeforeEach(st) ==
  CASE st = "partials" -> "if"
    [] st = "if" -> "each"
    [] st = "each" -> "helpers"
    [] st = "helpers" -> "interpolation"
    [] st = "interpolation" -> "done"

\* the stage that follows stage st in render(), lines 78-82
NextStage(st) ==
  CASE st = "partials" -> "each"
    [] st = "each" -> "if"
    [] st = "if" -> "helpers"
    [] st = "helpers" -> "interpolation"
    [] st = "interpolation" -> "done"

\* render() entered: `let result = template` and the matchAll of processPartials
NewFrame(template) ==
  LET ms == MatchAllPartials(template, 1)
  IN [template |-> template, result |-> template, matches |-> ms, k |-> 1,
      pc |-> IF ms = <<>> THEN NextStage("partials") ELSE "partials",
      log |-> IF ms = <<>> THEN <<[stage |-> "partials", text |-> template]>> ELSE <<>>]

Top == stack[Len(stack)]
SetTop(f) == [stack EXCEPT ![Len(stack)] = f]

\* the loop of processPartials without its advance to the next match
AfterPartial_NoAdvance(f, rep) ==
  [f EXCEPT !.result = ReplaceFirstString(f.result, f.matches[f.k].match, rep)]

\* one partial of the loop of processPartials is settled with replacement rep
AfterPartial(f, rep) ==
  LET r == ReplaceFirstString(f.result, f.matches[f.k].match, rep)
      last == f.k = Len(f.matches)
  IN [f EXCEPT !.result = r, !.k = f.k + 1,
               !.pc = IF last THEN NextStage("partials") ELSE "partials",
               !.log = IF last THEN Append(f.log, [stage |-> "partials", text |-> r])
                       ELSE f.log]

\* a synchronous stage of render() has run over the whole text
AfterStage(f, text) ==
  [f EXCEPT !.result = text, !.pc = NextStage(f.pc),
            !.log = Append(f.log, [stage |-> f.pc, text |-> text])]

NoOutcome == [kind |-> "none"]

Init ==
  /\ scen \in Scenarios
  /\ helpers = EngineDefaultHelpers
  /\ stack = <<>>
  /\ outcome = NoOutcome
  /\ raised = FALSE
  /\ undefArg = FALSE
  /\ hm = ManagerDefaultHelpers
  /\ hmLast = NoCall
  /\ hmCalls = 0
  /\ EngineConstructed
  /\ NoUnitCall

\* SimpleTemplateEngine.registerHelper
RegisterHelper(name, fn) ==
  /\ stack = <<>> /\ outcome = NoOutcome
  /\ helpers' = (name :> fn) @@ helpers
  /\ helpers' # helpers
  /\ UNCHANGED <<scen, stack, outcome, raised, undefArg, hm, hmLast, hmCalls, engineVars, unitVars>>

\* the caller calls render(template, context)
RenderCall ==
  /\ stack = <<>> /\ outcome = NoOutcome
  /\ stack' = <<NewFrame(scen.tpl)>>
  /\ UNCHANGED <<scen, helpers, outcome, raised, undefArg, hm, hmLast, hmCalls, engineVars, unitVars>>

\* processPartials, lines 177-184: readFile rejects, the marker becomes ""
PartialMissing ==
  /\ stack # <<>> /\ Top.pc = "partials"
  /\ Top.matches[Top.k].name \notin DOMAIN scen.files
  /\ stack' = SetTop(AfterPartial(Top, <<>>))
  /\ UNCHANGED <<scen, helpers, outcome, raised, undefArg, hm, hmLast, hmCalls, engineVars, unitVars>>

\* processPartials, lines 178-179: readFile resolves, render(partialContent) is entered
PartialLoaded ==
  /\ stack # <<>> /\ Top.pc = "partials"
  /\ Top.matches[Top.k].name \in DOMAIN scen.files
  /\ Len(stack) < MaxDepth
  /\ stack' = Append(stack, NewFrame(scen.files[Top.matches[Top.k].name]))
  /\ UNCHANGED <<scen, helpers, outcome, raised, undefArg, hm, hmLast, hmCalls, engineVars, unitVars>>

\* processPartials, line 180: the nested render() resolved with `rendered`
PartialRendered ==
  /\ Len(stack) > 1 /\ Top.pc = "done"
  /\ LET parent == stack[Len(stack) - 1]
     IN stack' = [SubSeq(stack, 1, Len(stack) - 1) EXCEPT
                    ![Len(stack) - 1] = AfterPartial(parent, Top.result)]
  /\ UNCHANGED <<scen, helpers, outcome, raised, undefArg, hm, hmLast, hmCalls, engineVars, unitVars>>

\* render(), line 79
ProcessEach ==
  /\ stack # <<>> /\ Top.pc = "each"
  /\ stack' = SetTop(AfterStage(Top, processEach(Top.result, Ctx)))
  /\ UNCHANGED <<scen, helpers, outcome, raised, undefArg, hm, hmLast, hmCalls, engineVars, unitVars>>

\* render(), line 80
ProcessIf ==
  /\ stack # <<>> /\ Top.pc = "if"
  /\ stack' = SetTop(AfterStage(Top, processIf(Top.result, Ctx)))
  /\ UNCHANGED <<scen, helpers, outcome, raised, undefArg, hm, hmLast, hmCalls, engineVars, unitVars>>

\* render(), line 81
ProcessHelpers ==
  /\ stack # <<>> /\ Top.pc = "helpers"
  /\ stack' = SetTop(AfterStage(Top, processHelpers(Top.result, Ctx, helpers)))
  /\ LET calls == HelperCalls(Top.result, 1, Ctx, helpers)
     IN /\ raised' = (raised \/ \E k \in DOMAIN calls : calls[k].threw)
        /\ undefArg' = (undefArg \/ \E k \in DOMAIN calls : calls[k].undefArg)
  /\ UNCHANGED <<scen, helpers, outcome, hm, hmLast, hmCalls, engineVars, unitVars>>

\* render(), line 82
ProcessInterpolation ==
  /\ stack # <<>> /\ Top.pc = "interpolation"
  /\ stack' = SetTop(AfterStage(Top, processInterpolation(Top.result, Ctx)))
  /\ UNCHANGED <<scen, helpers, outcome, raised, undefArg, hm, hmLast, hmCalls, engineVars, unitVars>>

\* render(), line 84: the outermost call resolves with result
RenderReturn ==
  /\ Len(stack) = 1 /\ Top.pc = "done"
  /\ outcome' = [kind |-> "returned", html |-> Top.result, log |-> Top.log]
  /\ stack' = <<>>
  /\ UNCHANGED <<scen, helpers, raised, undefArg, hm, hmLast, hmCalls, engineVars, unitVars>>

Next ==
  \/ \E h \in CustomHelpers : RegisterHelper(h[1], h[2])
  \/ RenderCall
  \/ PartialMissing
  \/ PartialLoaded
  \/ PartialRendered
  \/ ProcessEach
  \/ ProcessIf
  \/ ProcessHelpers
  \/ ProcessInterpolation
  \/ RenderReturn

Spec == Init /\ [][Next]_vars

\* the steps of a render call that was made: the continuations the event loop
\* runs once the awaited promise has settled
RenderStep ==
  \/ PartialMissing
  \/ PartialLoaded
  \/ PartialRendered
  \/ ProcessEach
  \/ ProcessIf
  \/ ProcessHelpers
  \/ ProcessInterpolation
  \/ RenderReturn

\* a continuation of the render call can run: the guards of the steps
RenderStepEnabled ==
  /\ stack # <<>>
  /\ Top.pc = "partials" =>
        \/ Top.matches[Top.k].name \notin DOMAIN scen.files
        \/ Len(stack) < MaxDepth

\* every continuation that can run does run: weak fairness of RenderStep,
\* with its enabling condition written out
FairSpec == Spec /\ ([]<>~RenderStepEnabled \/ []<><<RenderStep>>_vars)

----------------------------------------------------------------------------
(* Properties of SimpleTemplateEngine.render *)

Returned_ == outcome.kind = "returned"

\* the function a stage computes over a whole text
StageFunction(stage, text) ==
  CASE stage = "each" -> processEach(text, Ctx)
    [] stage = "if" -> processIf(text, Ctx)
    [] stage = "helpers" -> processHelpers(text, Ctx, helpers)
    [] stage = "interpolation" -> processInterpolation(text, Ctx)

\* a log of completed stages follows the order of the claim, and every stage
\* after the partials worked on the whole output of the stage before it
LogInOrder(log) ==
  /\ Len(log) <= Len(StageOrder)
  /\ \A k \in DOMAIN log : log[k].stage = StageOrder[k]
  /\ \A k \in DOMAIN log : k >= 2 => log[k].text = StageFunction(StageOrder[k], log[k - 1].text)

T_PartialOpensIf == PartialMarker(K("i")) \o K("X") \o W_else \o K("Y") \o W_endIf
T_PartialOpensEach == PartialMarker(K("e")) \o OB \o W_thisDot \o K("v") \o CB \o W_endEach

\* C1: every render() call, nested ones included, completes its stages in the
\* order partials, #each, #if, helpers, interpolation, each stage taking the
\* whole text the previous stage produced; a block marker that an expanded
\* partial brings into the host template is resolved by the host's later
\* stages ({{> i }}X{{else}}Y{{/if}} with partial i = {{#if t}} renders X).
C1_StageOrder ==
  /\ \A i \in DOMAIN stack :
       /\ LogInOrder(stack[i].log)
       /\ stack[i].pc = IF Len(stack[i].log) = Len(StageOrder) THEN "done"
                        ELSE StageOrder[Len(stack[i].log) + 1]
       /\ stack[i].log # <<>> => stack[i].result = stack[i].log[Len(stack[i].log)].text
  /\ Returned_ =>
       /\ LogInOrder(outcome.log)
       /\ Len(outcome.log) = Len(StageOrder)
       /\ outcome.html = outcome.log[Len(StageOrder)].text
       /\ scen.tpl = T_PartialOpensIf => outcome.html = K("X")
       /\ scen.tpl = T_PartialOpensEach => outcome.html = <<"a", "b">>

\* a render whose partial brought the opening {{#if t}} into the host has returned
C1_Witness ==
  /\ Returned_
  /\ scen.tpl = T_PartialOpensIf
  /\ outcome.log[1].text = OB \o W_if \o Sp \o K("t") \o CB \o K("X") \o W_else \o K("Y") \o W_endIf
  /\ outcome.html = K("X")

\* the value bound to a path by the caller's data (own properties only)
RECURSIVE OwnParts(_, _)
OwnParts(parts, value) ==
  IF parts = <<>> THEN value
  ELSE IF value.t = "obj" /\ Head(parts) \in DOMAIN value.o
       THEN OwnParts(Tail(parts), value.o[Head(parts)])
  ELSE Undef
Bound(path) == OwnParts(SplitDot(path), Ctx)

HtmlSpecials == {"&", "<", ">", "\"", "'"}

\* every & of text starts one of the five entities
RECURSIVE OnlyEntities(_)
OnlyEntities(text) ==
  IF text = <<>> THEN TRUE
  ELSE IF Head(text) \in HtmlSpecials
       THEN /\ Head(text) = "&"
            /\ \E c \in HtmlSpecials :
                 /\ MatchAt(text, 1, EscapeChar(c))
                 /\ OnlyEntities(SubSeq(text, Len(EscapeChar(c)) + 1, Len(text)))
  ELSE OnlyEntities(Tail(text))

\* C2: for every string s bound to p, {{ p }} renders s with & < > " ' replaced
\* by their entities (no raw one is left) and {{{ p }}} renders s exactly.
C2_EscapedAndRaw ==
  (Returned_ /\ scen.kind = "interp" /\ scen.path \in StringPaths) =>
     IF scen.flag THEN outcome.html = Bound(scen.path).s
     ELSE /\ outcome.html = escapeHtml(Bound(scen.path).s)
          /\ OnlyEntities(outcome.html)

\* the values the claim names as falsy
ClaimFalsy == {Bool(FALSE), Null, Undef, Str(<<>>), Arr(<<>>)}

\* C3: {{#if x}}A{{else}}B{{/if}} renders A iff x resolves to none of false,
\* null, undefined, "", []; otherwise B, which is "" when there is no else.
C3_IfTruthiness ==
  (Returned_ /\ scen.kind = "if") =>
     outcome.html = IF resolveValue(scen.path, Ctx) \notin ClaimFalsy THEN K("A")
                    ELSE IF scen.flag THEN K("B") ELSE <<>>

\* {{#if z}}A{{else}}B{{/if}} with z = 0 has rendered A
C3_Witness ==
  /\ Returned_ /\ scen.kind = "if" /\ scen.path = K("z") /\ scen.flag
  /\ outcome.html = K("A")

\* one marker of an #each body, for the element item at index i of n
ClaimMarkerValue(tok, item, i, n) ==
  CASE tok = "this.v" -> escapeHtml(ToStr(OrEmpty(getPropertyValue(item, K("v")))))
    [] tok = "this.n" -> escapeHtml(ToStr(OrEmpty(getPropertyValue(item, K("n")))))
    [] tok = "this" -> escapeHtml(ToStr(item))
    [] tok = "@index" -> NumToStr(i)
    [] tok = "@first" -> IF i = 0 THEN W_true ELSE W_false
    [] tok = "@last" -> IF i = n - 1 THEN W_true ELSE W_false
    [] OTHER -> K(tok)

ClaimEach(path, body) ==
  LET array == resolveValue(path, Ctx)
  IN IF array.t # "arr" THEN <<>>
     ELSE Flatten([i \in DOMAIN array.a |->
            Flatten([k \in DOMAIN body |->
               ClaimMarkerValue(body[k], array.a[i], i - 1, Len(array.a))])])

\* C4: {{#each p}}body{{/each}} renders "" when p is no array, otherwise the
\* bodies of the elements in index order, each with this, @index, @first and
\* @last standing for the element, its index, i = 0 and i = n - 1.
C4_EachInstantiates ==
  (Returned_ /\ scen.kind = "each") => outcome.html = ClaimEach(scen.path, scen.body)

\* C5: inside an #each body the #if, helper and interpolation stages see the
\* item: {{#if this.k}}Y{{/if}} keeps Y for the items with a truthy k,
\* {{upper this.n}} receives the item's n, {{#if @first}} holds for item 0.
C5_LaterStagesSeeItem ==
  (Returned_ /\ scen.kind = "nested") =>
     outcome.html = CASE scen.body = "if" -> K("Y")
                      [] scen.body = "helper" -> <<"A", "B", "C", "D">>
                      [] scen.body = "first" -> K("F")

\* C6: for every path p absent from the context, {{ p }} and {{{ p }}} render
\* as the empty string.
C6_AbsentRendersEmpty ==
  (Returned_ /\ scen.kind = "interp" /\ Bound(scen.path) = Undef) => outcome.html = <<>>

\* C7: {{ h a1 ... }}, with or without white space after the opening braces,
\* is replaced in the helper stage iff h is registered and an argument
\* follows; otherwise the helper stage leaves the marker as it is.
C7_HelperRecognised ==
  (Returned_ /\ scen.kind = "helper") =>
     LET before == outcome.log[3].text
         after == outcome.log[4].text
         wins == scen.path \in DOMAIN helpers /\ Trim(scen.body) # <<>>
     IN IF wins THEN after # before ELSE after = before

\* C8: a render in which a helper body raised, or a helper argument path
\* resolved to undefined, does not return a string to its caller.
C8_HelperFailuresPropagate ==
  (raised \/ undefArg) => outcome.kind # "returned"

\* the partials stage as the claim states it: every marker, in document
\* order, gives way in place to the rendering of its file, or to nothing when
\* the file does not load
RECURSIVE ClaimPartials(_, _)
ClaimPartials(s, i) ==
  IF i > Len(s) THEN <<>>
  ELSE LET m == MatchPartial(s, i)
       IN IF m.ok
          THEN (IF m.name \in DOMAIN scen.files
                THEN render(scen.files[m.name], Ctx, scen.files, helpers)
                ELSE <<>>) \o ClaimPartials(s, m.end)
          ELSE <<s[i]>> \o ClaimPartials(s, i + 1)

\* C15: after the partials stage every {{> name }} of the template has given
\* way, in document order, to the full rendering of partials/name.html under
\* the same context, or to the empty text when the file does not load; the
\* render returns.
C15_PartialsInPlace ==
  (Returned_ /\ scen.kind = "partial") =>
     outcome.log[1].text = ClaimPartials(scen.tpl, 1)

\* the partials a text includes: the names of its markers that have a file
Includes(text, files) ==
  {MatchAllPartials(text, 1)[i].name : i \in DOMAIN MatchAllPartials(text, 1)}
    \cap DOMAIN files

SetMax(S) == CHOOSE x \in S : \A y \in S : y <= x

\* the length of the longest inclusion chain that starts in text, counted up
\* to fuel
RECURSIVE ChainFrom(_, _, _)
ChainFrom(text, files, fuel) ==
  IF fuel = 0 \/ Includes(text, files) = {} THEN 0
  ELSE 1 + SetMax({ChainFrom(files[n], files, fuel - 1) : n \in Includes(text, files)})

\* a chain longer than the number of files goes through a file twice
Cyclic(text, files) ==
  ChainFrom(text, files, Cardinality(DOMAIN files) + 1) > Cardinality(DOMAIN files)
LongestChain(text, files) == ChainFrom(text, files, Cardinality(DOMAIN files))

\* C24: when the inclusion graph under the template is acyclic, a render call
\* that was made returns, and never nests its partial renders deeper than the
\* longest inclusion chain; when an inclusion cycle is reachable from the
\* template, the call never returns.
C24_TerminatesIffAcyclic ==
  /\ [](~Cyclic(scen.tpl, scen.files)
          => Len(stack) <= 1 + LongestChain(scen.tpl, scen.files))
  /\ (stack # <<>> /\ ~Cyclic(scen.tpl, scen.files)) ~> Returned_
  /\ [](Cyclic(scen.tpl, scen.files) => ~Returned_)

\* the render of a partial included by a partial is in progress: the template
\* includes n, n includes head, and there the chain ends
C24_Witness ==
  /\ ~Cyclic(scen.tpl, scen.files)
  /\ LongestChain(scen.tpl, scen.files) = 2
  /\ Len(stack) = 3

\* C25: the helper stage of the renderer refines the Helper Registry: the
\* renderer's helpers are the registry's (the same built-in set, and
\* registerHelper registers there), and for a registered name the text put in
\* place of {{name args}} is what execute(name, args, context) gives on a
\* registry holding the same helpers.
C25_HelperStageRefinesRegistry ==
  /\ helpers = hm
  /\ (/\ Returned_ /\ scen.kind = "helper"
      /\ MatchHelper(scen.tpl, 1).ok
      /\ MatchHelper(scen.tpl, 1).helperName \in DOMAIN helpers)
       => outcome.html =
            ToStr(execute(helpers, MatchHelper(scen.tpl, 1).helperName,
                          MatchHelper(scen.tpl, 1).argsString, Ctx).val)

\* the render context without the value of key k
CtxWithout(k) == Obj([x \in DOMAIN Ctx.o \ {k} |-> Ctx.o[x]])

\* C26: context data is never read as template markup.  A value that holds
\* marker text comes out as data where it is substituted: by {{ this.v }}
\* inside #each and by an interpolation inside a partial; and the render of
\* {{ p }} or {{{ p }}} is the same when a context value that the template does
\* not reference is taken away.
C26_DataIsNotMarkup ==
  Returned_ =>
     /\ (scen.kind = "each" /\ scen.path = W_inj /\ scen.body = <<"this.v", "-", "@index">>)
          => outcome.html = escapeHtml(OB \o W_index \o CB) \o <<"-", "0">>
     /\ (scen.kind = "partial" /\ scen.tpl = PartialMarker(K("r")))
          => outcome.html = Bound(K("s")).s
     /\ scen.kind = "interp"
          => \A k \in DOMAIN Ctx.o \ {Head(SplitDot(scen.path))} :
                render(scen.tpl, CtxWithout(k), scen.files, helpers) = outcome.html

\* C27: in an #each body over an array of strings every {{ this }} is
\* replaced by escapeHtml(item), literally, whatever $ sequences the item
\* holds: the #each stage turns {{#each strs}}{{ this }},{{/each}} into the
\* escaped items, each followed by the comma.
C27_ThisInsertedLiterally ==
  (/\ Returned_ /\ scen.kind = "each" /\ scen.body = <<"this", ",">>
   /\ Bound(scen.path).t = "arr"
   /\ \A i \in DOMAIN Bound(scen.path).a : Bound(scen.path).a[i].t = "str")
    => outcome.log[2].text =
         Flatten([i \in DOMAIN Bound(scen.path).a |->
                    escapeHtml(Bound(scen.path).a[i].s) \o <<",">>])

\* does text hold the marker text w somewhere ?
Holds(text, w) == IndexFrom(text, w, 1) # 0

\* C28: a template whose block markers are balanced and properly nested (an
\* #if inside a branch of an #if, an #each inside an #each) renders with each
\* opening marker paired with its own closing marker: no text of a block
\* marker is left in the output.
C28_NestedBlocksPaired ==
  (Returned_ /\ scen.kind = "balanced") =>
     \A w \in {OB \o W_if, W_else, W_endIf, OB \o W_each, W_endEach} :
        ~Holds(outcome.html, w)

----------------------------------------------------------------------------
(* HelpersManager as a state machine: the calls an application makes on one  *)
(* manager, one after the other.                                             *)

W_test == <<"t","e","s","t">>
P_price == W_price
A_quoted == <<"\"","H","i"," ","\""," ">> \o P_u_n

NoScenario == Scenario("none", <<>>, NoFiles, <<>>, <<>>, FALSE)

\* the names and functions an application registers
ManagerRegistrations == {<<W_test, "ok">>, <<W_boom, "boom">>, <<W_upper, "lower">>}
\* the names an application removes or executes
ManagerNames == {W_upper, W_currency, W_boom, W_test, W_nope}
\* the raw argument texts of execute
ManagerArgTexts == {<<>>, P_u_n, P_price, K("m"), K("7"), A_quoted}

\* the context of the manager's calls: the render context, with properties
\* named like a numeral and like a literal
ManagerCtx == Obj(Ctx.o @@ (K("7") :> Str(<<"s","e","v","e","n">>)) @@ (W_true :> Str(<<"y","e","s">>)))

Q == <<"\"">>
\* "hi" 5 true false null
A_literals == Q \o <<"h","i">> \o Q \o Sp \o K("5") \o Sp \o W_true \o Sp \o W_false \o Sp \o W_null
\* "true"
A_quotedTrue == Q \o W_true \o Q
\* "a\"b c" 7
A_escaped == Q \o <<"a","\\","\"","b"," ","c">> \o Q \o Sp \o K("7")
\* u.n and 7 with leading, repeated and trailing spaces
A_spaces == Sp \o Sp \o P_u_n \o Sp \o Sp \o Sp \o K("7") \o Sp
\* u.n and price with a tab, with a line break between them
A_tab == P_u_n \o <<"\t">> \o P_price
A_newline == P_u_n \o <<"\n">> \o Sp \o P_price
\* the raw argument texts of parseArgs
ParseArgTexts ==
  { <<>>, Sp, A_literals, A_quotedTrue, A_quoted, A_escaped, A_spaces, A_tab, A_newline,
    K("7"), P_u_n, P_u_m, K("m"), K("l"), W_null, W_true, W_Infinity,
    K("l") \o Sp \o W_null \o Sp \o P_u_n }

ManagerInit ==
  /\ scen = NoScenario
  /\ helpers = EngineDefaultHelpers
  /\ stack = <<>>
  /\ outcome = NoOutcome
  /\ raised = FALSE
  /\ undefArg = FALSE
  /\ hm = ManagerDefaultHelpers
  /\ hmLast = NoCall
  /\ hmCalls = 0
  /\ EngineConstructed
  /\ NoUnitCall

\* HelpersManager.register
Register(name, fn) ==
  /\ hmCalls < MaxCalls
  /\ hm' = register(hm, name, fn)
  /\ hmLast' = [op |-> "register", name |-> name, fn |-> fn, before |-> hm,
                result |-> ReturnedValue(Undef)]
  /\ hmCalls' = hmCalls + 1
  /\ UNCHANGED <<renderVars, engineVars, unitVars>>

\* HelpersManager.remove
Remove(name) ==
  /\ hmCalls < MaxCalls
  /\ hm' = remove(hm, name).map
  /\ hmLast' = [op |-> "remove", name |-> name, before |-> hm,
                result |-> ReturnedValue(remove(hm, name).returns)]
  /\ hmCalls' = hmCalls + 1
  /\ UNCHANGED <<renderVars, engineVars, unitVars>>

\* HelpersManager.clear
Clear ==
  /\ hmCalls < MaxCalls
  /\ hm' = clear(hm)
  /\ hmLast' = [op |-> "clear", before |-> hm, result |-> ReturnedValue(Undef)]
  /\ hmCalls' = hmCalls + 1
  /\ UNCHANGED <<renderVars, engineVars, unitVars>>

\* HelpersManager.execute
Execute(name, argsString) ==
  /\ hmCalls < MaxCalls
  /\ hmLast' = [op |-> "execute", name |-> name, argsString |-> argsString, before |-> hm,
                \* was a helper body entered, and did it raise ?
                invoked |-> name \in DOMAIN hm,
                bodyRaised |-> /\ name \in DOMAIN hm
                               /\ Call(hm[name], parseArgs(argsString, ManagerCtx)).threw,
                tokens |-> TokensFrom(argsString, 1, <<>>, <<>>, FALSE),
                result |-> execute(hm, name, argsString, ManagerCtx)]
  /\ hmCalls' = hmCalls + 1
  /\ UNCHANGED <<hm>>
  /\ UNCHANGED <<renderVars, engineVars, unitVars>>

\* HelpersManager.parseArgs, called as the tests call it
ParseArgs(argsString) ==
  /\ hmCalls < MaxCalls
  /\ hmLast' = [op |-> "parseArgs", argsString |-> argsString, before |-> hm,
                tokens |-> TokensFrom(argsString, 1, <<>>, <<>>, FALSE),
                result |-> ReturnedValue(Arr(parseArgs(argsString, ManagerCtx)))]
  /\ hmCalls' = hmCalls + 1
  /\ UNCHANGED <<hm>>
  /\ UNCHANGED <<renderVars, engineVars, unitVars>>

ManagerNext ==
  \/ \E r \in ManagerRegistrations : Register(r[1], r[2])
  \/ \E n \in ManagerNames : Remove(n)
  \/ Clear
  \/ \E n \in ManagerNames, a \in ManagerArgTexts : Execute(n, a)
  \/ \E a \in ParseArgTexts : ParseArgs(a)

ManagerSpec == ManagerInit /\ [][ManagerNext]_vars

\* C9: execute(name, ...) fails with HelperNotFoundException whenever name is
\* not registered at the time of the call; it returns no string then.
C9_ExecuteUnknownThrows ==
  (hmLast.op = "execute" /\ hmLast.name \notin DOMAIN hmLast.before) =>
     /\ hmLast.result = ThrewException("HelperNotFoundException")
     /\ ~hmLast.invoked

\* C10: execute fails with HelperExecutionException whenever the body of the
\* invoked helper raises; it returns no string then.
C10_ExecuteWrapsErrors ==
  (hmLast.op = "execute" /\ hmLast.bodyRaised) =>
     hmLast.result = ThrewException("HelperExecutionException")

----------------------------------------------------------------------------
(* Properties of the argument parser and of the registry *)

\* the tokens of a raw argument text as the tokenizer is described: maximal
\* runs of characters between white space that is outside double quotes; a
\* quote toggles a quoted span unless a backslash precedes it
RECURSIVE ClaimTokensFrom(_, _, _, _, _)
ClaimTokensFrom(text, i, toks, cur, inQuotes) ==
  IF i > Len(text) THEN IF cur # <<>> THEN Append(toks, cur) ELSE toks
  ELSE LET c == text[i]
           toggles == c = "\"" /\ (i = 1 \/ text[i - 1] # "\\")
       IN IF c \in SpaceChars /\ ~inQuotes
          THEN ClaimTokensFrom(text, i + 1, IF cur # <<>> THEN Append(toks, cur) ELSE toks,
                               <<>>, inQuotes)
          ELSE ClaimTokensFrom(text, i + 1, toks, Append(cur, c),
                               IF toggles THEN ~inQuotes ELSE inQuotes)
ClaimTokens(text) == ClaimTokensFrom(text, 1, <<>>, <<>>, FALSE)

ClaimIsQuoted(tok) == Len(tok) >= 2 /\ Head(tok) = "\"" /\ tok[Len(tok)] = "\""
\* the token parses as a finite number
ClaimIsNumeral(tok) == NumberOfText(tok).t = "num"
\* the token is none of the four literals, so it is a context path
ClaimIsPath(tok) ==
  ~ClaimIsQuoted(tok) /\ ~ClaimIsNumeral(tok) /\ tok \notin {W_true, W_false, W_null}

\* the value of a token by the first rule that applies
ClaimClassify(tok, context) ==
  IF ClaimIsQuoted(tok) THEN Str(SubSeq(tok, 2, Len(tok) - 1))
  ELSE IF ClaimIsNumeral(tok) THEN NumberOfText(tok)
  ELSE IF tok = W_true THEN Bool(TRUE)
  ELSE IF tok = W_false THEN Bool(FALSE)
  ELSE IF tok = W_null THEN Null
  ELSE resolveValue(tok, context)

\* a call that parsed its argument text: parseArgs, or execute of a
\* registered helper
ParsedArguments ==
  \/ hmLast.op = "parseArgs"
  \/ hmLast.op = "execute" /\ hmLast.invoked

\* C11: parseArgs, and so execute, fails with HelperArgumentException whenever
\* a token classified as a context path resolves to undefined; a path bound
\* to null and the literal null give the argument null without error.
C11_UndefinedPathThrows ==
  ParsedArguments =>
     LET toks == hmLast.tokens
     IN IF \E k \in DOMAIN toks :
             ClaimIsPath(toks[k]) /\ resolveValue(toks[k], ManagerCtx) = Undef
        THEN hmLast.result = ThrewException("HelperArgumentException")
        ELSE /\ hmLast.result.kind = "returned"
             /\ hmLast.op = "parseArgs" =>
                  \A k \in DOMAIN toks :
                     (toks[k] = W_null \/ ClaimClassify(toks[k], ManagerCtx) = Null)
                        => hmLast.result.val.a[k] = Null

\* C12: parseArgs gives every token the value of the first rule that applies:
\* quoted -> the text between the quotes, finite number -> the number,
\* true/false -> boolean, null -> null, anything else -> the context lookup.
C12_ClassificationOrder ==
  hmLast.op = "parseArgs" =>
     /\ Len(hmLast.result.val.a) = Len(hmLast.tokens)
     /\ \A k \in DOMAIN hmLast.tokens :
          hmLast.result.val.a[k] = ClaimClassify(hmLast.tokens[k], ManagerCtx)

\* C13: parseArgs splits the text at white space outside double quotes, keeps
\* white space inside a quoted span, does not toggle on an escaped quote, and
\* returns one argument per token, never an empty extra one.
C13_Tokenisation ==
  hmLast.op = "parseArgs" =>
     /\ hmLast.tokens = ClaimTokens(hmLast.argsString)
     /\ Len(hmLast.result.val.a) = Len(ClaimTokens(hmLast.argsString))

\* every name of the model
AllNames == DOMAIN ManagerDefaultHelpers \cup ManagerNames \cup {r[1] : r \in ManagerRegistrations}

SameEntry(hs1, hs2, n) == has(hs1, n) = has(hs2, n) /\ get(hs1, n) = get(hs2, n)

\* C14: register(name, fn) makes has(name) true and get(name) = fn, built-ins
\* included, and returns normally; remove(name) returns whether name was
\* registered and leaves it absent; clear() leaves no helper; no call changes
\* the entry of another name; a fresh manager holds the built-ins.
C14_RegistryOperations ==
  /\ hmLast.op = "none" => hm = ManagerDefaultHelpers
  /\ hmLast.op = "register" =>
       /\ has(hm, hmLast.name) /\ get(hm, hmLast.name) = [t |-> "helper", fn |-> hmLast.fn]
       /\ hmLast.result = ReturnedValue(Undef)
       /\ \A n \in AllNames \ {hmLast.name} : SameEntry(hm, hmLast.before, n)
  /\ hmLast.op = "remove" =>
       /\ ~has(hm, hmLast.name) /\ get(hm, hmLast.name) = Undef
       /\ hmLast.result = ReturnedValue(Bool(has(hmLast.before, hmLast.name)))
       /\ \A n \in AllNames \ {hmLast.name} : SameEntry(hm, hmLast.before, n)
  /\ hmLast.op = "clear" =>
       /\ \A n \in AllNames : ~has(hm, n) /\ get(hm, n) = Undef
       /\ hmLast.result = ReturnedValue(Undef)
  /\ hmLast.op \in {"execute", "parseArgs"} => hm = hmLast.before

\* the built-in upper was overwritten by register and then removed: remove
\* returned true and upper is gone
C14_Witness ==
  /\ hmLast.op = "remove" /\ hmLast.name = W_upper
  /\ get(hmLast.before, W_upper) = [t |-> "helper", fn |-> "lower"]
  /\ hmLast.result = ReturnedValue(Bool(TRUE))
  /\ ~has(hm, W_upper) /\ has(hm, W_lower)

----------------------------------------------------------------------------
(* RaptorEngine as a state machine: render calls made one after the other   *)
(* on one engine; a call is suspended at `await readFile` and while          *)
(* templateEngine.render runs.                                               *)

\* number of render calls explored in one behaviour
MaxRenders == 2

\* the class renderFile throws, exported by exceptions/fileExistsException
FileExistsException == "FileNotExistsException"

\* renderFile with a catch that gives "" where it should throw
renderFileCatch_Swallow(filePath) == ReturnedValue(Str(<<>>))

\* the catch of renderFile, lines 171-173
renderFileCatch(filePath) == ThrewException(FileExistsException)

\* renderFile with `return await this.templateEngine.render(...)`: the catch
\* takes the renderer's rejection
renderFileRejection_Caught(exc) == FileExistsException

\* what the promise of renderFile rejects with when templateEngine.render
\* rejects with exc: lines 164 and 170 return the promise without awaiting
\* it, so the rejection does not pass through the catch
renderFileRejection(exc) == exc

\* renderFile that never finds a path in the cache
CacheHas_Never(cache, filePath) == FALSE

\* this.cacheTemplates.has(filePath), line 162
CacheHas(cache, filePath) == filePath \in DOMAIN cache

\* renderFile that caches an empty text in place of the text read
cacheSet_Empty(cache, filePath, fileContent) == (filePath :> <<>>) @@ cache

\* this.cacheTemplates.set(filePath, fileContent), line 169
cacheSet(cache, filePath, fileContent) == (filePath :> fileContent) @@ cache

\* what templateEngine.render(template, params) settles with
SettledWith(result) ==
  IF result.raises THEN ThrewException("TypeError") ELSE ReturnedValue(Str(result.html))

renderOutcome(template, context, files, hs) ==
  SettledWith(renderResult(template, context, files, hs))

\* render(view, params, layout) entered: line 108 up to the call of renderFile
NewRender(view, params, layout) ==
  [view |-> view, params |-> params,
   layoutArg |-> layout, defaultAtCall |-> engine.defaultLayout,
   annotationAtCall |-> engine.contentAnnotation,
   layout |-> IF layout = Null THEN engine.defaultLayout ELSE layout.s,
   pc |-> "layout", text |-> <<>>, layoutRaw |-> <<>>, layoutDone |-> FALSE,
   layoutContent |-> <<>>, viewContent |-> <<>>, marker |-> <<>>, result |-> NoOutcome]

InLayout(r) == r.pc \in {"layout", "layoutReading", "layoutRender"}
\* the filePath of the renderFile call a render is in
FilePath(r) == IF InLayout(r) THEN LayoutPath(r.layout) ELSE ViewPath(r.view)
\* the params of that call: renderLayout passes none, so the default {} applies
FileParams(r) == IF InLayout(r) THEN "{}" ELSE r.params

Reading(pc) == IF pc = "layout" THEN "layoutReading" ELSE "viewReading"
Rendering(pc) == IF pc \in {"layout", "layoutReading"} THEN "layoutRender" ELSE "viewRender"

LogRead(path, event) ==
  [q \in DOMAIN reads \cup {path} |->
     IF q = path THEN Append(IF q \in DOMAIN reads THEN reads[q] ELSE <<>>, event)
     ELSE reads[q]]

\* the content renderFile resolved with is taken by render(), lines 108-109
WithContent(r, content) ==
  IF InLayout(r)
  THEN [r EXCEPT !.layoutContent = content, !.layoutDone = TRUE, !.pc = "view"]
  ELSE [r EXCEPT !.viewContent = content, !.pc = "compose"]

Rejected(r, exc) == [r EXCEPT !.pc = "done", !.result = ThrewException(exc)]

\* the view and params arguments of the render calls, and the layout argument
EngineViews ==
  {<<K("h"), "data">>, <<K("p"), "data">>, <<K("d"), "data">>, <<K("q"), "data">>,
   <<K("b"), "data">>, <<K("b"), "bare">>, <<K("k"), "data">>, <<K("z"), "data">>}
EngineLayouts == {Null, Str(W_alt), Str(W_lay), Str(W_fake)}

\* a call that settled earlier, of which only its place in the order is kept
Settled == [pc |-> "done"]

EngineInit ==
  /\ scen = NoScenario
  /\ helpers = EngineDefaultHelpers
  /\ stack = <<>>
  /\ outcome = NoOutcome
  /\ raised = FALSE
  /\ undefArg = FALSE
  /\ hm = ManagerDefaultHelpers
  /\ hmLast = NoCall
  /\ hmCalls = 0
  /\ EngineConstructed
  /\ NoUnitCall

\* RaptorEngine.render is called while no other call is in flight
EngineRender(view, params, layout) ==
  /\ Len(renders) < MaxRenders
  /\ \A c \in DOMAIN renders : renders[c].pc = "done"
  /\ renders' = Append([c \in DOMAIN renders |-> Settled], NewRender(view, params, layout))
  /\ UNCHANGED <<renderVars, managerVars, engine, reads, unitVars>>

\* renderFile, lines 162-164: the raw text comes from the cache
CacheHit(c) ==
  /\ renders[c].pc \in {"layout", "view"}
  /\ CacheHas(engine.cacheTemplates, FilePath(renders[c]))
  /\ renders' = [renders EXCEPT ![c].text = engine.cacheTemplates[FilePath(renders[c])],
                                ![c].pc = Rendering(renders[c].pc)]
  /\ UNCHANGED <<renderVars, managerVars, engine, reads, unitVars>>

\* renderFile, line 167: readFile is called
ReadStart(c) ==
  /\ renders[c].pc \in {"layout", "view"}
  /\ ~CacheHas(engine.cacheTemplates, FilePath(renders[c]))
  /\ reads' = LogRead(FilePath(renders[c]), "start")
  /\ renders' = [renders EXCEPT ![c].pc = Reading(renders[c].pc)]
  /\ UNCHANGED <<renderVars, managerVars, engine, unitVars>>

\* renderFile, lines 167-170: readFile resolved, the text is cached
ReadResolved(c) ==
  /\ renders[c].pc \in {"layoutReading", "viewReading"}
  /\ ReadResolves(FilePath(renders[c]))
  /\ LET path == FilePath(renders[c])
     IN /\ engine' = [engine EXCEPT !.cacheTemplates = cacheSet(@, path, EngineFiles[path])]
        /\ reads' = LogRead(path, "ok")
        /\ renders' = [renders EXCEPT ![c].text = EngineFiles[path],
                                      ![c].pc = Rendering(renders[c].pc)]
  /\ UNCHANGED <<renderVars, managerVars, unitVars>>

\* renderFile, lines 167 and 171-173: readFile rejected
ReadRejected(c) ==
  /\ renders[c].pc \in {"layoutReading", "viewReading"}
  /\ ~ReadResolves(FilePath(renders[c]))
  /\ LET path == FilePath(renders[c])
         caught == renderFileCatch(path)
     IN /\ reads' = LogRead(path, "failed")
        /\ renders' = [renders EXCEPT ![c] =
                         IF caught.kind = "threw" THEN Rejected(@, caught.exc)
                         ELSE WithContent(@, caught.val.s)]
  /\ UNCHANGED <<renderVars, managerVars, engine, unitVars>>

\* renderFile, line 163: in the layout call the content rendered is kept
WithLayoutRaw(r) == IF InLayout(r) THEN [r EXCEPT !.layoutRaw = r.text] ELSE r

\* renderFile, lines 164 and 170, once templateEngine.render settled with out
AfterRender(r, out) ==
  IF out.kind = "threw" THEN Rejected(r, renderFileRejection(out.exc))
  ELSE WithContent(r, out.val.s)

\* renderFile, lines 164 and 170: templateEngine.render settled
RenderSettled(c) ==
  /\ renders[c].pc \in {"layoutRender", "viewRender"}
  /\ renders' = [renders EXCEPT ![c] =
                   AfterRender(WithLayoutRaw(renders[c]),
                               renderOutcome(renders[c].text,
                                             ParamsOf(FileParams(renders[c])),
                                             PartialFiles, helpers))]
  /\ UNCHANGED <<renderVars, managerVars, engine, reads, unitVars>>

\* render, line 111
Compose(c) ==
  /\ renders[c].pc = "compose"
  /\ renders' = [renders EXCEPT
                   ![c].pc = "done",
                   ![c].marker = engine.contentAnnotation,
                   ![c].result = ReturnedValue(Str(ReplaceFirstString(
                                    renders[c].layoutContent, engine.contentAnnotation,
                                    renders[c].viewContent)))]
  /\ UNCHANGED <<renderVars, managerVars, engine, reads, unitVars>>

\* RaptorEngine.setDefaultLayout
SetDefaultLayout(layout) ==
  /\ engine.defaultLayout # layout
  /\ engine' = [engine EXCEPT !.defaultLayout = layout]
  /\ UNCHANGED <<renderVars, managerVars, reads, renders, unitVars>>

\* RaptorEngine.setContentAnnotation
SetContentAnnotation(annotation) ==
  /\ engine.contentAnnotation # annotation
  /\ engine' = [engine EXCEPT !.contentAnnotation = annotation]
  /\ UNCHANGED <<renderVars, managerVars, reads, renders, unitVars>>

EngineNext ==
  \/ \E v \in EngineViews, l \in EngineLayouts : EngineRender(v[1], v[2], l)
  \/ \E c \in DOMAIN renders : CacheHit(c)
  \/ \E c \in DOMAIN renders : ReadStart(c)
  \/ \E c \in DOMAIN renders : ReadResolved(c)
  \/ \E c \in DOMAIN renders : ReadRejected(c)
  \/ \E c \in DOMAIN renders : RenderSettled(c)
  \/ \E c \in DOMAIN renders : Compose(c)
  \/ \E l \in {W_alt, K("n")} : SetDefaultLayout(l)
  \/ SetContentAnnotation(W_marker)

EngineSpec == EngineInit /\ [][EngineNext]_vars

----------------------------------------------------------------------------
(* RaptorEngine under concurrent render calls: a call is made while earlier  *)
(* calls are suspended at `await readFile` or at the await of renderLayout   *)
(* and renderView; the steps of the calls interleave at those awaits.        *)

\* number of render calls that are in flight together
MaxConcurrent == 2

\* the view and params arguments of the concurrent calls, and the layout
ConcurrentViews == {<<K("p"), "data">>, <<K("k"), "data">>}
ConcurrentLayouts == {Null, Str(W_alt)}

\* RaptorEngine.render is called, whatever the state of the earlier calls
ConcurrentRender(view, params, layout) ==
  /\ Len(renders) < MaxConcurrent
  /\ renders' = Append(renders, NewRender(view, params, layout))
  /\ UNCHANGED <<renderVars, managerVars, engine, reads, unitVars>>

ConcurrentNext ==
  \/ \E v \in ConcurrentViews, l \in ConcurrentLayouts : ConcurrentRender(v[1], v[2], l)
  \/ \E c \in DOMAIN renders : CacheHit(c)
  \/ \E c \in DOMAIN renders : ReadStart(c)
  \/ \E c \in DOMAIN renders : ReadResolved(c)
  \/ \E c \in DOMAIN renders : ReadRejected(c)
  \/ \E c \in DOMAIN renders : RenderSettled(c)
  \/ \E c \in DOMAIN renders : Compose(c)

ConcurrentSpec == EngineInit /\ [][ConcurrentNext]_vars

----------------------------------------------------------------------------
(* Properties of RaptorEngine.render *)

\* the render call made last
LastRender == renders[Len(renders)]
\* it has settled
LastDone == renders # <<>> /\ LastRender.pc = "done"
LastReturned == LastDone /\ LastRender.result.kind = "returned"

\* C16: render returns the rendered layout with the first occurrence of the
\* content marker replaced by the rendered view as it is: (layout before the
\* marker) + view + (layout after the marker); a layout without the marker is
\* returned unchanged.
C16_ContentInjectedVerbatim ==
  LastReturned =>
     LET r == LastRender
         i == IndexFrom(r.layoutContent, r.marker, 1)
     IN r.result.val.s =
          IF i = 0 THEN r.layoutContent
          ELSE Slice(r.layoutContent, 1, i) \o r.viewContent
                 \o SubSeq(r.layoutContent, i + Len(r.marker), Len(r.layoutContent))

\* C17: the layout text is rendered with the caller's params, as the view
\* text is: the rendered layout is the rendering of the layout file under the
\* params of the call.
C17_LayoutSeesParams ==
  (renders # <<>> /\ LastRender.layoutDone) =>
     LastRender.layoutContent =
        render(LastRender.layoutRaw, ParamsOf(LastRender.params), PartialFiles, helpers)

C19_RendererExceptionsPass ==
  (/\ LastDone
   /\ ReadResolves(LayoutPath(LastRender.layout))
   /\ ReadResolves(ViewPath(LastRender.view))
   /\ renderRaises(EngineFiles[ViewPath(LastRender.view)], ParamsOf(LastRender.params),
                   PartialFiles, helpers))
     => LastRender.result = ThrewException("TypeError")

\* the view {{b}} was rendered twice with a b that String() cannot convert,
\* the second time from the cache, and the caller got the TypeError
C19_Witness ==
  /\ LastDone /\ Len(renders) = 2
  /\ LastRender.view = K("b") /\ LastRender.params = "bare"
  /\ ViewPath(K("b")) \in DOMAIN reads
  /\ reads[ViewPath(K("b"))] = <<"start", "ok">>
  /\ LastRender.result = ThrewException("TypeError")

\* C20: over render calls made one after the other, no file is read again
\* after a read of it succeeded (so no file is read successfully twice).
C20_ReadAtMostOnce ==
  \A path \in DOMAIN reads :
     \A i, j \in DOMAIN reads[path] :
        (i < j /\ reads[path][i] = "ok") => reads[path][j] # "start"

\* the view p was rendered twice and its file was read once
C20_Witness ==
  /\ LastReturned /\ Len(renders) = 2
  /\ LastRender.view = K("p")
  /\ reads[ViewPath(K("p"))] = <<"start", "ok">>
  /\ reads[LayoutPath(LastRender.layout)] = <<"start", "ok">>

\* the cacheTemplates.set calls made for a path: one per read that resolved
CacheWrites(path) == {i \in DOMAIN reads[path] : reads[path][i] = "ok"}

\* C21: under every interleaving of concurrent render calls on one engine, the
\* cache is only mutated by inserting an entry for a path that has none: no
\* path has its entry written a second time.
C21_CacheInsertOnly ==
  \A path \in DOMAIN reads : Cardinality(CacheWrites(path)) <= 1

\* C22: the setters affect only the render calls that start after them: a call
\* that returns has used the default layout that was in force when it was
\* called (if it was given no layout) and has composed with the content
\* marker that was in force when it was called.
C22_SettersAffectLaterCalls ==
  LastReturned =>
     /\ LastRender.layout = IF LastRender.layoutArg = Null THEN LastRender.defaultAtCall
                            ELSE LastRender.layoutArg.s
     /\ LastRender.layoutRaw = EngineFiles[LayoutPath(LastRender.layout)]
     /\ LastRender.marker = LastRender.annotationAtCall

----------------------------------------------------------------------------
(* resolveValue as a state machine: calls made one after the other, each     *)
(* with a path and a context                                                 *)

\* `part in value` raises a TypeError when value is not an object
InRaises(value) == ~IsObjectLike(value)

\* does resolveValue raise ?  Lines 412-420: the loop over the parts
RECURSIVE ResolveRaises(_, _)
ResolveRaises(parts, value) ==
  IF parts = <<>> THEN FALSE
  ELSE IF value.t \in {"undef", "null"} THEN FALSE
  ELSE IF IsObjectLike(value)
       THEN \/ InRaises(value)
            \/ /\ HasProp(value, Head(parts))
               /\ ResolveRaises(Tail(parts), GetProp(value, Head(parts)))
  ELSE FALSE

resolveValueRaises(path, context) == ResolveRaises(SplitDot(path), context)

\* resolveValue(path, context) is called and settles
ResolveValue(path, name) ==
  /\ resolved' = [kind |-> "call", path |-> path, context |-> name,
                  raises |-> resolveValueRaises(path, ParamsOf(name)),
                  value |-> resolveValue(path, ParamsOf(name))]
  /\ UNCHANGED <<renderVars, managerVars, engineVars, chain>>

ResolveNext == \E path \in ResolvePaths, name \in ResolveContexts : ResolveValue(path, name)

ResolveSpec == EngineInit /\ [][ResolveNext]_vars

\* what the caller's data holds at a path: the value of the property of each
\* segment in turn (own properties of objects, indices and length of arrays),
\* or Absent when a segment names no property of the value reached
Absent == [t |-> "absent"]
OwnHas(value, key) ==
  \/ value.t = "obj" /\ key \in DOMAIN value.o
  \/ value.t = "arr" /\ (key = W_length \/ IsIndexOf(key, value.a))
RECURSIVE Addressed(_, _)
Addressed(parts, value) ==
  IF parts = <<>> THEN value
  ELSE IF OwnHas(value, Head(parts)) THEN Addressed(Tail(parts), GetProp(value, Head(parts)))
  ELSE Absent

\* C23: resolveValue never throws, whatever the path traverses; it returns
\* undefined when a segment is absent, and null only when the addressed value
\* is an explicit null.
C23_ResolveNeverThrows ==
  resolved.kind = "call" =>
     LET addressed == Addressed(SplitDot(resolved.path), ParamsOf(resolved.context))
     IN /\ ~resolved.raises
        /\ addressed = Absent => resolved.value = Undef
        /\ resolved.value = Null => addressed = Null

\* C29: in every reachable state of the engine each cache entry maps a path
\* to the raw text that a read of that path resolved with, whatever was
\* rendered since; a read that fails adds no entry, so that the path has no
\* entry after the failure and the next render reads the file again.
C29_CacheHoldsRawText ==
  /\ \A path \in DOMAIN engine.cacheTemplates :
        /\ path \in DOMAIN reads /\ CacheWrites(path) # {}
        /\ engine.cacheTemplates[path] = EngineFiles[path]
  /\ \A path \in DOMAIN reads :
        reads[path][Len(reads[path])] = "failed" => path \notin DOMAIN engine.cacheTemplates
  /\ \A path \in DOMAIN reads :
        \A i \in DOMAIN reads[path] :
           (reads[path][i] = "failed" /\ i < Len(reads[path])) => reads[path][i + 1] = "start"

\* two renders of the view k, whose file cannot be read, have failed: the file
\* was read again by the second one, and the layout both used is cached
C29_Witness ==
  /\ LastDone /\ Len(renders) = 2
  /\ LastRender.result = ThrewException("FileNotExistsException")
  /\ ViewPath(K("k")) \in DOMAIN reads
  /\ reads[ViewPath(K("k"))] = <<"start", "failed", "start", "failed">>
  /\ LayoutPath(W_main) \in DOMAIN engine.cacheTemplates
  /\ ViewPath(K("k")) \notin DOMAIN engine.cacheTemplates

----------------------------------------------------------------------------
(* Router.resolve and the chain of middlewares of the matched route.  The    *)
(* call is synchronous; its steps are the entries and returns of the handle  *)
(* methods, of their next functions and of the route handler.                *)

\* the largest number of middlewares set on a route
MaxMiddlewares == 3

\* what the handle method of a middleware does with its next function:
\* "pass"  returns next(request);
\* "after" takes the response of next(request), sets a header on it and
\*         returns it;
\* "stop"  returns a response of its own and does not call next;
\* "twice" calls next(request) two times and returns the second response
MiddlewareKinds == {"pass", "after", "stop", "twice"}

\* the arrays of middleware classes given to setMiddlewares
MiddlewareClasses ==
  UNION {[1..n -> MiddlewareKinds] : n \in 0..MaxMiddlewares}

\* Layer.setMiddlewares: one instance per class, in the order of the array
setMiddlewares(classes) ==
  [i \in DOMAIN classes |-> [id |-> i, does |-> classes[i]]]

\* Layer.hasMiddlewares
hasMiddlewares(middlewares) == Len(middlewares) > 0

NoResponse == [kind |-> "none"]

\* the response of the route handler, Response.text("hola")
HandlerResponse == [kind |-> "response", body |-> "hola", headers |-> {}]

\* the response of a middleware that cuts the chain
StoppedResponse(id) == [kind |-> "response", body |-> "stopped", headers |-> {}]

\* response.setHeader(name, value) on the response object
setHeader(response, name) == [response EXCEPT !.headers = @ \cup {name}]

\* a chain that goes on two middlewares further on
slice_Two(middlewares) == SubSeq(middlewares, 3, Len(middlewares))

\* middlewares.slice(1), line 115
slice(middlewares) == SubSeq(middlewares, 2, Len(middlewares))

\* runMiddlewares(request, middlewares, target), lines 108-117: the call it
\* makes, target(request) or middlewares[0].handle(request, next)
runMiddlewares(middlewares) ==
  IF Len(middlewares) = 0
  THEN [pc |-> "target", middlewares |-> middlewares, nexts |-> 0, got |-> NoResponse]
  ELSE [pc |-> "entered", middlewares |-> middlewares, nexts |-> 0, got |-> NoResponse]

\* the event of entering the call made by runMiddlewares
Entry(middlewares) ==
  IF Len(middlewares) = 0
  THEN [op |-> "target", id |-> 0, response |-> NoResponse]
  ELSE [op |-> "handle", id |-> middlewares[1].id, response |-> NoResponse]

Running == chain.kind = "call" /\ chain.frames # <<>>

TopFrame == chain.frames[Len(chain.frames)]

\* the middleware whose handle method the top frame runs
Current == TopFrame.middlewares[1]

\* the frames and the result once the top frame returned `response`: the
\* caller's next(request) gives it, or resolve() returns it
ReturnedTo(response) ==
  LET n == Len(chain.frames)
  IN IF n = 1
     THEN [frames |-> <<>>, result |-> response]
     ELSE [frames |-> [SubSeq(chain.frames, 1, n - 1) EXCEPT
                         ![n - 1] = [@ EXCEPT !.pc = "resumed", !.got = response]],
           result |-> NoResponse]

\* Router.resolve(request), lines 73-82, for a route with these middlewares
Resolve(classes) ==
  /\ chain = NoChain
  /\ LET middlewares == setMiddlewares(classes)
         first == IF hasMiddlewares(middlewares) THEN middlewares ELSE <<>>
     IN chain' = [kind |-> "call", declared |-> middlewares,
                  frames |-> <<runMiddlewares(first)>>,
                  log |-> <<Entry(first)>>,
                  result |-> NoResponse]
  /\ UNCHANGED <<renderVars, managerVars, engineVars, resolved>>

\* a handle method calls next(request): runMiddlewares on the rest, line 114
CallNext ==
  /\ Running
  /\ TopFrame.pc \in {"entered", "resumed"}
  /\ \/ Current.does \in {"pass", "after"} /\ TopFrame.nexts = 0
     \/ Current.does = "twice" /\ TopFrame.nexts < 2
  /\ LET n == Len(chain.frames)
         rest == slice(TopFrame.middlewares)
     IN chain' = [chain EXCEPT
          !.frames = Append([@ EXCEPT ![n] = [@ EXCEPT !.pc = "waiting",
                                                        !.nexts = @ + 1]],
                            runMiddlewares(rest)),
          !.log = @ \o <<[op |-> "next", id |-> Current.id, response |-> NoResponse],
                         Entry(rest)>>]
  /\ UNCHANGED <<renderVars, managerVars, engineVars, resolved>>

\* the route handler returns its response, lines 81 and 111
TargetReturns ==
  /\ Running
  /\ TopFrame.pc = "target"
  /\ chain' = [chain EXCEPT
       !.frames = ReturnedTo(HandlerResponse).frames,
       !.result = ReturnedTo(HandlerResponse).result,
       !.log = Append(@, [op |-> "return", id |-> 0, response |-> HandlerResponse])]
  /\ UNCHANGED <<renderVars, managerVars, engineVars, resolved>>

\* what the handle method of the top frame returns
HandleResult ==
  CASE Current.does = "stop" -> StoppedResponse(Current.id)
    [] Current.does = "after" -> setHeader(TopFrame.got, Current.id)
    [] OTHER -> TopFrame.got

\* a handle method returns
HandleReturns ==
  /\ Running
  /\ \/ TopFrame.pc = "entered" /\ Current.does = "stop"
     \/ TopFrame.pc = "resumed" /\ Current.does \in {"pass", "after"}
     \/ TopFrame.pc = "resumed" /\ Current.does = "twice" /\ TopFrame.nexts = 2
  /\ chain' = [chain EXCEPT
       !.frames = ReturnedTo(HandleResult).frames,
       !.result = ReturnedTo(HandleResult).result,
       !.log = Append(@, [op |-> "return", id |-> Current.id, response |-> HandleResult])]
  /\ UNCHANGED <<renderVars, managerVars, engineVars, resolved>>

RouterNext ==
  \/ \E classes \in MiddlewareClasses : Resolve(classes)
  \/ CallNext
  \/ TargetReturns
  \/ HandleReturns

RouterSpec == EngineInit /\ [][RouterNext]_vars

\* the events of the log with this operation and this middleware
Events(op, id) == {i \in DOMAIN chain.log : chain.log[i].op = op /\ chain.log[i].id = id}

\* every middleware of the route calls next exactly once
AllCallNextOnce == \A i \in DOMAIN chain.declared : chain.declared[i].does \in {"pass", "after"}

\* C30: the middlewares of the route run as a chain in declaration order:
\* the first is entered by resolve, middleware k only by the next of
\* middleware k-1 and the handler only by the next of the last one; a
\* middleware is given by its next what the rest of the chain returned, and
\* what the first one returns is the result; when every middleware calls
\* next once the handler runs once; after a middleware that returns without
\* calling next, no later middleware and not the handler has run.
C30_MiddlewareChain ==
  chain.kind = "call" /\ hasMiddlewares(chain.declared) =>
    LET log == chain.log
        last == Len(chain.declared)
    IN /\ log[1] = [op |-> "handle", id |-> 1, response |-> NoResponse]
       /\ \A i \in DOMAIN log :
            /\ (log[i].op = "handle" /\ i > 1) =>
                 /\ log[i].id > 1
                 /\ log[i - 1] = [op |-> "next", id |-> log[i].id - 1, response |-> NoResponse]
            /\ log[i].op = "target" =>
                 /\ i > 1
                 /\ log[i - 1] = [op |-> "next", id |-> last, response |-> NoResponse]
       /\ (Running /\ TopFrame.pc = "resumed") =>
            /\ log[Len(log)].op = "return"
            /\ log[Len(log)].id = (IF Current.id = last THEN 0 ELSE Current.id + 1)
            /\ TopFrame.got = log[Len(log)].response
       /\ chain.result # NoResponse =>
            /\ chain.frames = <<>>
            /\ log[Len(log)] = [op |-> "return", id |-> 1, response |-> chain.result]
       /\ (AllCallNextOnce /\ chain.result # NoResponse) =>
            /\ Cardinality(Events("target", 0)) = 1
            /\ \A k \in DOMAIN chain.declared : Cardinality(Events("handle", k)) = 1
            /\ chain.result = [HandlerResponse EXCEPT !.headers =
                 {k \in DOMAIN chain.declared : chain.declared[k].does = "after"}]
       /\ \A k \in DOMAIN chain.declared :
            (chain.declared[k].does = "stop" /\ Events("return", k) # {}) =>
               /\ Events("target", 0) = {}
               /\ \A j \in DOMAIN chain.declared : j > k => Events("handle", j) = {}
               /\ Events("next", k) = {}

\* the route of the test "should valid run middlewares" with a third
\* middleware: all three called next once, and the handler's response came
\* back through them with the two headers set
C30_Witness ==
  /\ chain.kind = "call"
  /\ chain.declared = setMiddlewares(<<"after", "after", "pass">>)
  /\ chain.result = [HandlerResponse EXCEPT !.headers = {1, 2}]
  /\ Cardinality(Events("target", 0)) = 1

====
